---- MODULE Spec2Model ----
(***************************************************************************)
(* A model of the M-PU-3 assembler: tokenizer, parser, validator and the   *)
(* two-pass code generator, driven by Assembler.assemble.                  *)
(*                                                                         *)
(* Text is a sequence of one-character strings, so that the lexical        *)
(* patterns, the numeric conversions and the placeholder substitution are  *)
(* computed character by character as the code computes them.  Offsets     *)
(* into a text are 0-based, as in Python; text[pos + 1] is the character   *)
(* at offset pos.  A missing line or column (Python's None) is NoneLoc.    *)
(***************************************************************************)
EXTENDS Integers, Sequences, FiniteSets, TLC

VARIABLES
    code,            \* the source text handed to Assembler.assemble
    instructions_json, \* the decoded content of instructions.json
    pc,              \* the position of the run
    tokens,          \* the tokenizer's result
    program,         \* the parser's result: the list of statements
    v_instructions,  \* AssemblerValidator.instructions
    g_instructions,  \* AssemblerCodeGenerator.instructions
    symbol_table,    \* AssemblerCodeGenerator.symbol_table
    idx,             \* the statements the loop that raised had passed
    address,         \* _resolve_labels' address counter
    machine_code,    \* generate_code's machine_code list
    validated,       \* TRUE once AssemblerValidator.validate has returned
    result,          \* what the call returned: the list of words
    err,             \* the exception the call raised, or NoError
    call             \* a direct call of a static method: its arguments and its return

vars ==
    << code, instructions_json, pc, tokens, program, v_instructions,
       g_instructions, symbol_table, idx, address, machine_code, validated,
       result, err, call >>

(***************************************************************************)
(* Errors                                                                  *)
(***************************************************************************)
NoneLoc == 0

NoError == [kind |-> "none", line |-> NoneLoc, column |-> NoneLoc]

Error(kind, line, column) ==
    [kind |-> kind, line |-> line, column |-> column]

\* The classes of errors.py that derive from InvalidSyntaxError (itself included).
TypedErrors ==
    { "InvalidSyntaxError", "UnexpectedCharError", "InvalidInstructionError",
      "InvalidOperandError", "InvalidRegisterError", "InvalidAddressError",
      "ValueOutOfRangeError", "DuplicateLabelError", "UndefinedLabelError",
      "ProgramTooLongError" }

(***************************************************************************)
(* Characters                                                              *)
(***************************************************************************)
UpperLetters ==
    << "A", "B", "C", "D", "E", "F", "G", "H", "I", "J", "K", "L", "M",
       "N", "O", "P", "Q", "R", "S", "T", "U", "V", "W", "X", "Y", "Z" >>

LowerLetters ==
    << "a", "b", "c", "d", "e", "f", "g", "h", "i", "j", "k", "l", "m",
       "n", "o", "p", "q", "r", "s", "t", "u", "v", "w", "x", "y", "z" >>

Range(s) == { s[i] : i \in DOMAIN s }

Letters == Range(UpperLetters) \cup Range(LowerLetters)

DigitChars == << "0", "1", "2", "3", "4", "5", "6", "7", "8", "9" >>

Digits == Range(DigitChars)

BinDigits == { "0", "1" }

HexDigits == Digits \cup { "A", "B", "C", "D", "E", "F", "a", "b", "c", "d", "e", "f" }

IdentStart == Letters \cup { "_" }

IdentChars == Letters \cup Digits \cup { "_" }

SkipChars == { "\t", " ", "," }

\* str.upper() on one character
UpperChar(c) ==
    IF \E i \in DOMAIN LowerLetters : LowerLetters[i] = c
    THEN UpperLetters[CHOOSE i \in DOMAIN LowerLetters : LowerLetters[i] = c]
    ELSE c

upper(s) == [i \in DOMAIN s |-> UpperChar(s[i])]

\* the character at 0-based offset pos, "" past the end
At(text, pos) == IF pos >= 0 /\ pos < Len(text) THEN text[pos + 1] ELSE ""

\* text[from:to] of Python
Slice(text, from, to) ==
    IF to <= from THEN << >> ELSE [i \in 1..(to - from) |-> text[from + i]]

RECURSIVE RunLen(_, _, _)
\* the length of the longest run of characters of Class that starts at pos
RunLen(text, pos, Class) ==
    IF At(text, pos) \in Class THEN 1 + RunLen(text, pos + 1, Class) ELSE 0

RECURSIVE RunLenNotNewline(_, _)
\* the length of the match of [^\n]* at pos
RunLenNotNewline(text, pos) ==
    IF pos < Len(text) /\ At(text, pos) # "\n"
    THEN 1 + RunLenNotNewline(text, pos + 1)
    ELSE 0

(***************************************************************************)
(* Tokenizer (tokenizer.py)                                                *)
(***************************************************************************)
\* The names of TOKEN_SPECIFICATION in its order: alternatives of one regular
\* expression, so the first that matches at a position wins.
TOKEN_SPECIFICATION ==
    << "COMMENT", "LABEL", "IDENT", "REGISTER", "HEX", "BIN", "DEC",
       "MNEMONIC", "NEWLINE", "SKIP", "MISMATCH" >>

\* the length of the match of -?0<letter>[digits]+ at pos, 0 when none
PrefixedLen(text, pos, letter, Class) ==
    LET s == IF At(text, pos) = "-" THEN 1 ELSE 0
        n == RunLen(text, pos + s + 2, Class)
    IN  IF At(text, pos + s) = "0" /\ At(text, pos + s + 1) = letter /\ n > 0
        THEN s + 2 + n
        ELSE 0

\* the length of the match of pattern `kind` at pos, 0 when it does not match
MatchLen(kind, text, pos) ==
    CASE kind = "COMMENT" ->
           IF At(text, pos) = ";" THEN 1 + RunLenNotNewline(text, pos + 1) ELSE 0
      [] kind = "LABEL" ->
           IF At(text, pos) = "." /\ At(text, pos + 1) \in IdentStart
           THEN LET n == 2 + RunLen(text, pos + 2, IdentChars)
                IN  IF At(text, pos + n) = ":" THEN n + 1 ELSE 0
           ELSE 0
      [] kind = "IDENT" ->
           IF At(text, pos) = "." /\ At(text, pos + 1) \in IdentStart
           THEN 2 + RunLen(text, pos + 2, IdentChars)
           ELSE 0
      [] kind = "REGISTER" ->
           IF At(text, pos) = "R" /\ RunLen(text, pos + 1, Digits) > 0
           THEN 1 + RunLen(text, pos + 1, Digits)
           ELSE 0
      [] kind = "HEX" -> PrefixedLen(text, pos, "x", HexDigits)
      [] kind = "BIN" -> PrefixedLen(text, pos, "b", BinDigits)
      [] kind = "DEC" ->
           LET s == IF At(text, pos) = "-" THEN 1 ELSE 0
               n == RunLen(text, pos + s, Digits)
           IN  IF n > 0 THEN s + n ELSE 0
      [] kind = "MNEMONIC" -> RunLen(text, pos, Letters)
      [] kind = "NEWLINE" -> IF At(text, pos) = "\n" THEN 1 ELSE 0
      [] kind = "SKIP" -> RunLen(text, pos, SkipChars)
      [] kind = "MISMATCH" ->
           IF pos < Len(text) /\ At(text, pos) # "\n" THEN 1 ELSE 0

RECURSIVE FirstMatch(_, _, _)
\* the match at pos: the first alternative, from the i-th on, that matches there
\* (match.lastgroup) and the length of its match
FirstMatch(text, pos, i) ==
    LET n == MatchLen(TOKEN_SPECIFICATION[i], text, pos)
    IN  IF n > 0 THEN [type |-> TOKEN_SPECIFICATION[i], length |-> n]
        ELSE FirstMatch(text, pos, i + 1)

Token(type, value, line, start_column) ==
    [type |-> type, value |-> value, line |-> line, start_column |-> start_column]

RECURSIVE TokenizeFrom(_, _, _, _, _)
\* a tokenizer that does not move the start of the line at a newline
TokenizeMatchKeepsLineStart(text, pos, line_num, line_start, toks, match) ==
    LET token_type == match.type
        n == match.length
        value == Slice(text, pos, pos + n)
        column == pos - line_start + 1
    IN  CASE token_type = "NEWLINE" ->
               TokenizeFrom(text, pos + n, line_num + 1, line_start, toks)
          [] token_type \in { "SKIP", "COMMENT" } ->
               TokenizeFrom(text, pos + n, line_num, line_start, toks)
          [] token_type = "MISMATCH" ->
               [ok |-> FALSE, tokens |-> << >>,
                error |-> Error("UnexpectedCharError", line_num, column)]
          [] OTHER ->
               TokenizeFrom(text, pos + n, line_num, line_start,
                            Append(toks, Token(token_type, value, line_num, column)))

\* a tokenizer that counts a comment as a line
TokenizeMatchCountsComments(text, pos, line_num, line_start, toks, match) ==
    LET token_type == match.type
        n == match.length
        value == Slice(text, pos, pos + n)
        column == pos - line_start + 1
    IN  CASE token_type = "NEWLINE" ->
               TokenizeFrom(text, pos + n, line_num + 1, pos + n, toks)
          [] token_type = "SKIP" ->
               TokenizeFrom(text, pos + n, line_num, line_start, toks)
          [] token_type = "COMMENT" ->
               TokenizeFrom(text, pos + n, line_num + 1, line_start, toks)
          [] token_type = "MISMATCH" ->
               [ok |-> FALSE, tokens |-> << >>,
                error |-> Error("UnexpectedCharError", line_num, column)]
          [] OTHER ->
               TokenizeFrom(text, pos + n, line_num, line_start,
                            Append(toks, Token(token_type, value, line_num, column)))

\* the body of the loop of tokenize for the match `match`, which starts at pos
TokenizeMatch(text, pos, line_num, line_start, toks, match) ==
    LET token_type == match.type
        n == match.length
        value == Slice(text, pos, pos + n)
        column == pos - line_start + 1
    IN  CASE token_type = "NEWLINE" ->
               TokenizeFrom(text, pos + n, line_num + 1, pos + n, toks)
          [] token_type \in { "SKIP", "COMMENT" } ->
               TokenizeFrom(text, pos + n, line_num, line_start, toks)
          [] token_type = "MISMATCH" ->
               [ok |-> FALSE, tokens |-> << >>,
                error |-> Error("UnexpectedCharError", line_num, column)]
          [] OTHER ->
               TokenizeFrom(text, pos + n, line_num, line_start,
                            Append(toks, Token(token_type, value, line_num, column)))

\* the loop over token_pattern.finditer(code), from the match that starts at pos
TokenizeFrom(text, pos, line_num, line_start, toks) ==
    IF pos >= Len(text)
    THEN [ok |-> TRUE, tokens |-> toks, error |-> NoError]
    ELSE TokenizeMatch(text, pos, line_num, line_start, toks, FirstMatch(text, pos, 1))

tokenize(text) == TokenizeFrom(text, 0, 1, 0, << >>)

(***************************************************************************)
(* Parser (parser.py)                                                      *)
(***************************************************************************)
VALID_OPERAND_TYPES == { "REGISTER", "DEC", "HEX", "BIN", "IDENT" }

\* a parser that leaves the colon on the label's name
RemoveColonKept(value) == value

\* str.removesuffix(":")
RemoveColon(value) ==
    IF Len(value) > 0 /\ value[Len(value)] = ":"
    THEN SubSeq(value, 1, Len(value) - 1)
    ELSE value

LabelStatement(tok) ==
    [type |-> "label", label |-> RemoveColon(tok.value),
     line |-> tok.line, column |-> tok.start_column]

\* a parser that keeps the first operand of an instruction only
InstructionStatementFirstOperand(tok, args) ==
    [type |-> "instruction", mnemonic |-> tok.value,
     arguments |-> IF args = << >> THEN << >> ELSE << Head(args) >>,
     line |-> tok.line, column |-> tok.start_column]

InstructionStatement(tok, args) ==
    [type |-> "instruction", mnemonic |-> tok.value, arguments |-> args,
     line |-> tok.line, column |-> tok.start_column]

RECURSIVE collect_operands_stops(_, _, _, _)
\* a parser that ends the operands at a token that is no operand
collect_operands_stops(toks, pos, current_line, operands) ==
    IF pos >= Len(toks)
    THEN [ok |-> TRUE, pos |-> pos, operands |-> operands, error |-> NoError]
    ELSE IF toks[pos + 1].line # current_line
              \/ toks[pos + 1].type \notin VALID_OPERAND_TYPES
         THEN [ok |-> TRUE, pos |-> pos, operands |-> operands, error |-> NoError]
         ELSE collect_operands_stops(toks, pos + 1, current_line,
                                     Append(operands, toks[pos + 1]))

RECURSIVE collect_operands_consumes(_, _, _, _)
\* a _collect_operands that does not give back the token of another line
collect_operands_consumes(toks, pos, current_line, operands) ==
    IF pos >= Len(toks)
    THEN [ok |-> TRUE, pos |-> pos, operands |-> operands, error |-> NoError]
    ELSE IF toks[pos + 1].line # current_line
    THEN [ok |-> TRUE, pos |-> pos + 1, operands |-> operands, error |-> NoError]
    ELSE IF toks[pos + 1].type \in VALID_OPERAND_TYPES
    THEN collect_operands_consumes(toks, pos + 1, current_line,
                                   Append(operands, toks[pos + 1]))
    ELSE [ok |-> FALSE, pos |-> pos, operands |-> << >>,
          error |-> Error("InvalidSyntaxError", toks[pos + 1].line,
                          toks[pos + 1].start_column)]

RECURSIVE collect_operands(_, _, _, _)
\* _collect_operands: the tokens from `pos` that are on `current_line`
collect_operands(toks, pos, current_line, operands) ==
    IF pos >= Len(toks)
    THEN [ok |-> TRUE, pos |-> pos, operands |-> operands, error |-> NoError]
    ELSE LET tok == toks[pos + 1]
         IN  IF tok.line # current_line
             THEN [ok |-> TRUE, pos |-> pos, operands |-> operands, error |-> NoError]
             ELSE IF tok.type \in VALID_OPERAND_TYPES
                  THEN collect_operands(toks, pos + 1, current_line, Append(operands, tok))
                  ELSE [ok |-> FALSE, pos |-> pos, operands |-> << >>,
                        error |-> Error("InvalidSyntaxError", tok.line, tok.start_column)]

RECURSIVE ParseFrom(_, _, _)
\* parse: the loop `while self.pos < len(self.tokens)` with parse_line as its body
ParseFrom(toks, pos, prog) ==
    IF pos >= Len(toks)
    THEN [ok |-> TRUE, program |-> prog, error |-> NoError]
    ELSE LET tok == toks[pos + 1]
         IN  CASE tok.type = "LABEL" ->
                    ParseFrom(toks, pos + 1, Append(prog, LabelStatement(tok)))
               [] tok.type = "MNEMONIC" ->
                    LET c == collect_operands(toks, pos + 1, tok.line, << >>)
                    IN  IF c.ok
                        THEN ParseFrom(toks, c.pos,
                                       Append(prog, InstructionStatement(tok, c.operands)))
                        ELSE [ok |-> FALSE, program |-> << >>, error |-> c.error]
               [] OTHER ->
                    [ok |-> FALSE, program |-> << >>,
                     error |-> Error("InvalidSyntaxError", tok.line, tok.start_column)]

parse(toks) == ParseFrom(toks, 0, << >>)

(***************************************************************************)
(* Numeric conversions (utils.py, validator.py)                            *)
(***************************************************************************)
HexChars ==
    << "0", "1", "2", "3", "4", "5", "6", "7", "8", "9",
       "a", "b", "c", "d", "e", "f" >>

LowerChar(c) ==
    IF \E i \in DOMAIN UpperLetters : UpperLetters[i] = c
    THEN LowerLetters[CHOOSE i \in DOMAIN UpperLetters : UpperLetters[i] = c]
    ELSE c

\* the value of one digit character
DigitValue(c) == (CHOOSE i \in DOMAIN HexChars : HexChars[i] = LowerChar(c)) - 1

IsDigitOf(c, base) ==
    /\ \E i \in DOMAIN HexChars : HexChars[i] = LowerChar(c)
    /\ DigitValue(c) < base

RECURSIVE DigitsValue(_, _, _)
\* the number written by the digits s in `base`, continuing from acc
DigitsValue(s, base, acc) ==
    IF s = << >> THEN acc
    ELSE DigitsValue(Tail(s), base, acc * base + DigitValue(Head(s)))

AllDigits(s, base) == s # << >> /\ \A i \in DOMAIN s : IsDigitOf(s[i], base)

IntOk(v) == [ok |-> TRUE, value |-> v]

ValueError == [ok |-> FALSE, value |-> 0]

\* int(s, 0) on the digits `body` that follow the sign, for the texts a token
\* can hold: 0x / 0b and digits, or decimal digits; a decimal literal with a
\* leading zero that is not zero is refused, as Python refuses it.
Digits0(body, sign) ==
    LET prefix == IF Len(body) >= 2 THEN << body[1], LowerChar(body[2]) >> ELSE << >>
        rest == IF Len(body) >= 2 THEN SubSeq(body, 3, Len(body)) ELSE << >>
    IN  CASE prefix = << "0", "x" >> ->
               IF AllDigits(rest, 16) THEN IntOk(sign * DigitsValue(rest, 16, 0)) ELSE ValueError
          [] prefix = << "0", "b" >> ->
               IF AllDigits(rest, 2) THEN IntOk(sign * DigitsValue(rest, 2, 0)) ELSE ValueError
          [] OTHER ->
               IF ~AllDigits(body, 10) THEN ValueError
               ELSE IF Len(body) > 1 /\ body[1] = "0" /\ DigitsValue(body, 10, 0) # 0
                    THEN ValueError
                    ELSE IntOk(sign * DigitsValue(body, 10, 0))

\* int(s, 0)
IntBase0(s) ==
    Digits0(IF Len(s) > 0 /\ s[1] = "-" THEN Tail(s) ELSE s,
            IF Len(s) > 0 /\ s[1] = "-" THEN -1 ELSE 1)

\* int(s) in base 10 on the digits `body` that follow the sign: leading zeros
\* are allowed
Digits10(body, sign) ==
    IF AllDigits(body, 10) THEN IntOk(sign * DigitsValue(body, 10, 0)) ELSE ValueError

\* int(s)
IntBase10(s) ==
    Digits10(IF Len(s) > 0 /\ s[1] = "-" THEN Tail(s) ELSE s,
             IF Len(s) > 0 /\ s[1] = "-" THEN -1 ELSE 1)

\* get_register_number reading the digits as int(s, 0) reads them
get_register_number_base0(token) == IntBase0(Tail(token.value))

get_register_number(token) == IntBase10(Tail(token.value))

get_number(token) == IntBase0(token.value)

is_register(token) == token.type = "REGISTER"

is_number(token) == token.type \in { "HEX", "BIN", "DEC" }

is_address(token) == token.type \in { "IDENT", "HEX", "BIN", "DEC" }

is_in_range(number, range_list) == range_list[1] <= number /\ number <= range_list[2]

(***************************************************************************)
(* Instruction catalog (load_instructions.py)                              *)
(***************************************************************************)
CODE_TEMPLATE_LENGTH == 16

VALID_CATALOG_OPERAND_TYPES == { "num", "reg", "adr" }

VALID_TRANSFORMATIONS == { "div2", "neq", "dec" }

\* {"reg": "R", "num": "N", "adr": "A"}[operand_type]
Placeholder(operand_type) ==
    CASE operand_type = "reg" -> "R"
      [] operand_type = "num" -> "N"
      [] operand_type = "adr" -> "A"

RECURSIVE FindChar(_, _, _)
\* the offset of the first c in text at or after pos, -1 when there is none
FindChar(text, c, pos) ==
    IF pos >= Len(text) THEN -1
    ELSE IF At(text, pos) = c THEN pos
    ELSE FindChar(text, c, pos + 1)

\* re.search(rf"{start_character}_*", template): the match's start and length,
\* found |-> FALSE when re.search returns None
SearchRun(template, start_character) ==
    LET pos == FindChar(template, start_character, 0)
    IN  IF pos < 0
        THEN [found |-> FALSE, pos |-> -1, length |-> 0]
        ELSE [found |-> TRUE, pos |-> pos,
              length |-> 1 + RunLen(template, pos + 1, { "_" })]

\* {item["mnemonic"]: item for item in content}: a later item replaces an earlier
\* one of the same mnemonic
ToDict(content) ==
    [m \in { content[i].mnemonic : i \in DOMAIN content } |->
        content[CHOOSE i \in DOMAIN content :
                    /\ content[i].mnemonic = m
                    /\ \A j \in DOMAIN content : content[j].mnemonic = m => j <= i]]

\* _validate_operands: "ok" or the name of the exception raised
validate_operands(operands) ==
    LET Bad(o) ==
            \/ "type" \notin DOMAIN o
            \/ o.type \notin VALID_CATALOG_OPERAND_TYPES
            \/ /\ o.type = "num"
               /\ \/ "range" \notin DOMAIN o
                  \/ Len(o.range) # 2
                  \/ o.range[1] > o.range[2]
                  \/ /\ "transformations" \in DOMAIN o
                     /\ \E k \in DOMAIN o.transformations :
                            o.transformations[k] \notin VALID_TRANSFORMATIONS
    IN  IF \E j \in DOMAIN operands : Bad(operands[j])
        THEN "InstructionFormatError"
        ELSE "ok"

RECURSIVE ConsumeRuns(_, _, _)
\* the loop of _validate_code_template over the operands from index i (1-based):
\* the text left after the runs were cut off, or the exception raised
ConsumeRuns(remaining_template, operands, i) ==
    IF i > Len(operands)
    THEN [raised |-> "ok", remaining |-> remaining_template]
    ELSE LET m == SearchRun(remaining_template, Placeholder(operands[i].type))
         IN  IF ~m.found
             THEN [raised |-> "AttributeError", remaining |-> remaining_template]
             ELSE ConsumeRuns(Slice(remaining_template, m.pos + m.length,
                                    Len(remaining_template)),
                              operands, i + 1)

\* _validate_code_template: "ok" or the name of the exception raised
validate_code_template(code_template, operands) ==
    IF Len(code_template) # CODE_TEMPLATE_LENGTH
    THEN "InstructionFormatError"
    ELSE LET c == ConsumeRuns(code_template, operands, 1)
         IN  IF c.raised # "ok" THEN c.raised
             ELSE IF Range(c.remaining) \subseteq { "0", "1" }
                  THEN "ok"
                  ELSE "InstructionFormatError"

RECURSIVE ValidateFile(_, _, _)
\* _validate_instructions_file: the loop over the entries from index i (1-based)
ValidateFile(content, i, seen_mnemonics) ==
    IF i > Len(content) THEN "ok"
    ELSE LET instruction == content[i]
         IN  IF instruction.mnemonic = << >> \/ instruction.mnemonic \in seen_mnemonics
             THEN "InstructionFormatError"
             ELSE LET o == validate_operands(instruction.operands)
                      t == validate_code_template(instruction.code_template,
                                                  instruction.operands)
                  IN  IF o # "ok" THEN o
                      ELSE IF t # "ok" THEN t
                      ELSE ValidateFile(content, i + 1,
                                        seen_mnemonics \cup { instruction.mnemonic })

validate_instructions_file(content) == ValidateFile(content, 1, { })

\* InstructionLoader.load_instructions on a file that holds `content`
load_instructions(content) ==
    LET v == validate_instructions_file(content)
    IN  IF v = "ok"
        THEN [raised |-> "ok", instructions |-> ToDict(content)]
        ELSE [raised |-> v, instructions |-> << >>]

(***************************************************************************)
(* Validator (validator.py)                                                *)
(***************************************************************************)
REGISTER_RANGE == 0 .. 7

ADDRESS_RANGE == 0 .. 1023

Raise(kind, token) == Error(kind, token.line, token.start_column)

\* the check of the register number reg_num of a REGISTER operand
check_register(operand, reg_num) ==
    IF ~reg_num.ok THEN Error("ValueError", NoneLoc, NoneLoc)
    ELSE IF reg_num.value \notin REGISTER_RANGE
         THEN Raise("InvalidRegisterError", operand)
         ELSE NoError

\* the check of the value `number` of a numeric operand against the range
check_number(operand, operand_spec, number) ==
    IF ~number.ok THEN Error("ValueError", NoneLoc, NoneLoc)
    ELSE IF "range" \notin DOMAIN operand_spec
         THEN Error("KeyError", NoneLoc, NoneLoc)
    ELSE IF ~is_in_range(number.value, operand_spec.range)
         THEN Raise("ValueOutOfRangeError", operand)
         ELSE NoError

\* the check of the value `number` of a numeric address
check_address(operand, number) ==
    IF ~number.ok THEN Error("ValueError", NoneLoc, NoneLoc)
    ELSE IF number.value \notin ADDRESS_RANGE
         THEN Raise("InvalidAddressError", operand)
         ELSE NoError

\* validate_operand: NoError, or the exception raised
validate_operand(operand, operand_spec) ==
    CASE operand_spec.type = "reg" ->
           IF ~is_register(operand) THEN Raise("InvalidOperandError", operand)
           ELSE check_register(operand, get_register_number(operand))
      [] operand_spec.type = "num" ->
           IF ~is_number(operand) THEN Raise("InvalidOperandError", operand)
           ELSE check_number(operand, operand_spec, get_number(operand))
      [] operand_spec.type = "adr" ->
           IF ~is_address(operand) THEN Raise("InvalidOperandError", operand)
           ELSE IF is_number(operand)
                THEN check_address(operand, get_number(operand))
                ELSE NoError
      [] OTHER -> Error("NameError", NoneLoc, NoneLoc)

RECURSIVE ValidateOperands(_, _, _, _)
\* the loop over zip(arguments, expected_operands) from index i (1-based); e is
\* what the operands before i raised
ValidateOperands(arguments, expected_operands, i, e) ==
    IF e # NoError \/ i > Len(arguments) \/ i > Len(expected_operands) THEN e
    ELSE ValidateOperands(arguments, expected_operands, i + 1,
                          validate_operand(arguments[i], expected_operands[i]))

\* validate_instruction with the operands checked before their number
validate_instruction_operands_first(instruction, instructions) ==
    LET mnemonic == upper(instruction.mnemonic)
    IN  IF mnemonic \notin DOMAIN instructions
        THEN Error("InvalidInstructionError", instruction.line, instruction.column)
        ELSE LET expected_operands == instructions[mnemonic].operands
             IN  IF ValidateOperands(instruction.arguments, expected_operands, 1,
                                     NoError) # NoError
                 THEN ValidateOperands(instruction.arguments, expected_operands, 1,
                                       NoError)
                 ELSE IF Len(instruction.arguments) # Len(expected_operands)
                      THEN Error("InvalidSyntaxError", instruction.line,
                                 instruction.column)
                      ELSE NoError

\* validate_instruction: NoError, or the exception raised
validate_instruction(instruction, instructions) ==
    LET mnemonic == upper(instruction.mnemonic)
    IN  IF mnemonic \notin DOMAIN instructions
        THEN Error("InvalidInstructionError", instruction.line, instruction.column)
        ELSE LET expected_operands == instructions[mnemonic].operands
             IN  IF Len(instruction.arguments) # Len(expected_operands)
                 THEN Error("InvalidSyntaxError", instruction.line, instruction.column)
                 ELSE ValidateOperands(instruction.arguments, expected_operands, 1,
                                       NoError)

(***************************************************************************)
(* Code generator (code_generator.py)                                      *)
(***************************************************************************)
MAX_PROGRAM_SIZE == 1024

RECURSIVE Pow2(_)
\* 1 << n
Pow2(n) == IF n <= 0 THEN 1 ELSE 2 * Pow2(n - 1)

\* format(x, f"0{n_bits}b") for 0 <= x < 2^n_bits
FormatBin(x, n_bits) ==
    [i \in 1..n_bits |-> IF (x \div Pow2(n_bits - i)) % 2 = 1 THEN "1" ELSE "0"]

\* _int_to_bin writing the magnitude of a negative number
int_to_bin_magnitude(number, n_bits) ==
    LET magnitude == IF number < 0 THEN 0 - number ELSE number
    IN  FormatBin(magnitude % Pow2(n_bits), n_bits)

\* _int_to_bin: Python's & of a (possibly still negative) integer with the mask
\* 2^n_bits - 1 is its residue modulo 2^n_bits
int_to_bin(number, n_bits) ==
    LET wrapped == IF number < 0 THEN Pow2(n_bits) + number ELSE number
    IN  FormatBin(wrapped % Pow2(n_bits), n_bits)

\* AssemblerConstants.TRANSFORMATIONS[t](x); `not x` is a bool, which Python
\* counts as 1 or 0 in the arithmetic that follows
Transformation(t, x) ==
    CASE t = "neq" -> IF x = 0 THEN 1 ELSE 0
      [] t = "div2" -> x \div 2
      [] t = "dec" -> x - 1

RECURSIVE Reduce(_, _, _)
\* reduce(lambda n, t: TRANSFORMATIONS[t](n), transformations, num) from index i
Reduce(transformations, num, i) ==
    IF i > Len(transformations) THEN num
    ELSE Reduce(transformations, Transformation(transformations[i], num), i + 1)

RECURSIVE ReduceRight(_, _, _)
\* the transformations applied from the last to the first
ReduceRight(transformations, num, i) ==
    IF i < 1 THEN num
    ELSE ReduceRight(transformations, Transformation(transformations[i], num), i - 1)

transform_operand_right_to_left(num, transformations) ==
    ReduceRight(transformations, num, Len(transformations))

transform_operand(num, transformations) == Reduce(transformations, num, 1)

\* template[: match.start()] + placeholder + template[match.end() :] for the
\* match m, or found |-> FALSE when m is None
Substitute(template, m, number) ==
    IF ~m.found
    THEN [found |-> FALSE, text |-> template]
    ELSE [found |-> TRUE,
          text |-> Slice(template, 0, m.pos)
                   \o int_to_bin(number, m.length)
                   \o Slice(template, m.pos + m.length, Len(template))]

\* _replace_placeholder: the template with the first run of the placeholder
\* replaced
replace_placeholder(template, start_character, number) ==
    Substitute(template, SearchRun(template, start_character), number)

Word(binary_code) == [ok |-> TRUE, word |-> binary_code, error |-> NoError]

Raised(error) == [ok |-> FALSE, word |-> << >>, error |-> error]

\* `if not adr` in place of `if adr is None`: address 0 counts as missing
DefinedAndNonZero(table, name) == name \in DOMAIN table /\ table[name] # 0

\* symbol_table.get(name) is not None
Defined(table, name) == name \in DOMAIN table

\* the number n that int() returned, or the ValueError it raised
Converted(n) ==
    IF n.ok THEN [error |-> NoError, value |-> n.value]
    ELSE [error |-> Error("ValueError", NoneLoc, NoneLoc), value |-> 0]

\* self._transform_operand(num, operand_spec["transformations"])
Transformed(num, operand_spec) ==
    IF ~num.ok
    THEN [error |-> Error("ValueError", NoneLoc, NoneLoc), value |-> 0]
    ELSE IF "transformations" \notin DOMAIN operand_spec
    THEN [error |-> Error("KeyError", NoneLoc, NoneLoc), value |-> 0]
    ELSE [error |-> NoError,
          value |-> transform_operand(num.value, operand_spec.transformations)]

\* a code generator that takes label addresses as 1-based
OperandValueOneBased(operand, operand_spec, table) ==
    CASE operand_spec.type = "reg" -> Converted(get_register_number(operand))
      [] operand_spec.type = "num" -> Transformed(get_number(operand), operand_spec)
      [] operand_spec.type = "adr" ->
           IF operand.type = "IDENT"
           THEN IF Defined(table, operand.value)
                THEN [error |-> NoError, value |-> table[operand.value] + 1]
                ELSE [error |-> Raise("UndefinedLabelError", operand), value |-> 0]
           ELSE Converted(get_number(operand))

\* the value the operand contributes to the word, or the exception raised
OperandValue(operand, operand_spec, table) ==
    CASE operand_spec.type = "reg" -> Converted(get_register_number(operand))
      [] operand_spec.type = "num" -> Transformed(get_number(operand), operand_spec)
      [] operand_spec.type = "adr" ->
           IF operand.type = "IDENT"
           THEN IF Defined(table, operand.value)
                THEN [error |-> NoError, value |-> table[operand.value]]
                ELSE [error |-> Raise("UndefinedLabelError", operand), value |-> 0]
           ELSE Converted(get_number(operand))

\* the binary code after the operand of value v has replaced its placeholder
EncodeOperand(binary_code, operand_spec, v) ==
    IF v.error # NoError THEN [found |-> TRUE, text |-> binary_code, error |-> v.error]
    ELSE replace_placeholder(binary_code, Placeholder(operand_spec.type), v.value)
         @@ [error |-> NoError]

RECURSIVE EncodeOperands(_, _, _, _, _)
\* the loop of generate_instruction over zip(arguments, operands) from index i;
\* r is what the operands before i made of the template
EncodeOperands(r, arguments, operand_specs, i, table) ==
    IF r.error # NoError THEN Raised(r.error)
    ELSE IF ~r.found THEN Raised(Error("AttributeError", NoneLoc, NoneLoc))
    ELSE IF i > Len(arguments) \/ i > Len(operand_specs) THEN Word(r.text)
    ELSE EncodeOperands(EncodeOperand(r.text, operand_specs[i],
                                      OperandValue(arguments[i], operand_specs[i], table)),
                        arguments, operand_specs, i + 1, table)

\* generate_instruction: the word, or the exception raised
generate_instruction(instruction, instructions, table) ==
    LET mnemonic == upper(instruction.mnemonic)
    IN  IF mnemonic \notin DOMAIN instructions
        THEN Raised(Error("TypeError", NoneLoc, NoneLoc))
        ELSE EncodeOperands([found |-> TRUE, error |-> NoError,
                             text |-> instructions[mnemonic].code_template],
                            instruction.arguments,
                            instructions[mnemonic].operands, 1, table)

\* a pass 1 that counts Label statements as addresses too
resolve_statement_counts_labels(line, table, addr) ==
    IF line.type = "label"
    THEN IF line.label \in DOMAIN table
         THEN [error |-> Error("DuplicateLabelError", line.line, NoneLoc),
               table |-> table, address |-> addr]
         ELSE [error |-> NoError,
               table |-> (line.label :> addr) @@ table, address |-> addr + 1]
    ELSE [error |-> IF addr + 1 > MAX_PROGRAM_SIZE
                    THEN Error("ProgramTooLongError", line.line, NoneLoc)
                    ELSE NoError,
          table |-> table, address |-> addr + 1]

\* a pass 1 that lets a second definition of a label replace the first
resolve_statement_overwrites(line, table, addr) ==
    IF line.type = "label"
    THEN [error |-> NoError,
          table |-> (line.label :> addr) @@ table, address |-> addr]
    ELSE [error |-> IF addr + 1 > MAX_PROGRAM_SIZE
                    THEN Error("ProgramTooLongError", line.line, NoneLoc)
                    ELSE NoError,
          table |-> table, address |-> addr + 1]

\* a pass 1 that refuses the MAX_PROGRAM_SIZE-th instruction already
resolve_statement_refuses_last(line, table, addr) ==
    IF line.type = "label"
    THEN IF line.label \in DOMAIN table
         THEN [error |-> Error("DuplicateLabelError", line.line, NoneLoc),
               table |-> table, address |-> addr]
         ELSE [error |-> NoError,
               table |-> (line.label :> addr) @@ table, address |-> addr]
    ELSE [error |-> IF addr + 1 >= MAX_PROGRAM_SIZE
                    THEN Error("ProgramTooLongError", line.line, NoneLoc)
                    ELSE NoError,
          table |-> table, address |-> addr + 1]

\* one iteration of the loop of _resolve_labels
resolve_statement(line, table, addr) ==
    IF line.type = "label"
    THEN IF line.label \in DOMAIN table
         THEN [error |-> Error("DuplicateLabelError", line.line, NoneLoc),
               table |-> table, address |-> addr]
         ELSE [error |-> NoError,
               table |-> (line.label :> addr) @@ table, address |-> addr]
    ELSE [error |-> IF addr + 1 > MAX_PROGRAM_SIZE
                    THEN Error("ProgramTooLongError", line.line, NoneLoc)
                    ELSE NoError,
          table |-> table, address |-> addr + 1]

\* machine_code.append(g.word), unless generate_instruction raised
Appended(words, g) ==
    IF g.ok THEN [error |-> NoError, machine_code |-> Append(words, g.word)]
    ELSE [error |-> g.error, machine_code |-> words]

\* the new word put in front of the list
Prepended(words, g) ==
    IF g.ok THEN [error |-> NoError, machine_code |-> << g.word >> \o words]
    ELSE [error |-> g.error, machine_code |-> words]

\* a pass 2 that puts each new word in front of the list
emit_statement_prepends(line, instructions, table, words) ==
    IF line.type = "instruction"
    THEN Prepended(words, generate_instruction(line, instructions, table))
    ELSE [error |-> NoError, machine_code |-> words]

\* one iteration of the loop of generate_code: the list after the statement
emit_statement(line, instructions, table, words) ==
    IF line.type = "instruction"
    THEN Appended(words, generate_instruction(line, instructions, table))
    ELSE [error |-> NoError, machine_code |-> words]

\* the loop state r after the statement at index lo: idx counts the statements
\* the loop has passed
Passed(r, lo) == r @@ [idx |-> IF r.error = NoError THEN lo ELSE lo - 1]

RECURSIVE ValidateRange(_, _, _, _, _)
\* the loop of validate over the statements lo..hi (1-based), in order, from the
\* loop state st; idx counts the statements passed.  The range is split in two
\* halves run one after the other.
ValidateRange(prog, lo, hi, st, instructions) ==
    IF st.error # NoError \/ lo > hi THEN st
    ELSE IF lo = hi
    THEN Passed(IF prog[lo].type = "instruction"
                THEN [error |-> validate_instruction(prog[lo], instructions)]
                ELSE [error |-> NoError],
                lo)
    ELSE LET mid == (lo + hi) \div 2
             left == ValidateRange(prog, lo, mid, st, instructions)
         IN  ValidateRange(prog, mid + 1, hi, left, instructions)

\* AssemblerValidator.validate
validate(prog, instructions) ==
    ValidateRange(prog, 1, Len(prog), [error |-> NoError, idx |-> 0], instructions)

RECURSIVE ResolveRange(_, _, _, _)
\* the loop of _resolve_labels over the statements lo..hi, in order
ResolveRange(prog, lo, hi, st) ==
    IF st.error # NoError \/ lo > hi THEN st
    ELSE IF lo = hi
    THEN Passed(resolve_statement(prog[lo], st.table, st.address), lo)
    ELSE LET mid == (lo + hi) \div 2
             left == ResolveRange(prog, lo, mid, st)
         IN  ResolveRange(prog, mid + 1, hi, left)

\* a pass 1 that stops at a duplicate label or at the instruction that is one
\* too many, and raises nothing
resolve_labels_unchecked(prog, table) ==
    [ResolveRange(prog, 1, Len(prog),
                  [error |-> NoError, table |-> table, address |-> 0, idx |-> 0])
        EXCEPT !.error = NoError]

\* _resolve_labels (pass 1) on a generator whose symbol table is `table`
resolve_labels(prog, table) ==
    ResolveRange(prog, 1, Len(prog),
                 [error |-> NoError, table |-> table, address |-> 0, idx |-> 0])

RECURSIVE GenerateRange(_, _, _, _, _, _)
\* the loop of generate_code (pass 2) over the statements lo..hi, in order
GenerateRange(prog, lo, hi, st, instructions, table) ==
    IF st.error # NoError \/ lo > hi THEN st
    ELSE IF lo = hi
    THEN Passed(emit_statement(prog[lo], instructions, table, st.machine_code), lo)
    ELSE LET mid == (lo + hi) \div 2
             left == GenerateRange(prog, lo, mid, st, instructions, table)
         IN  GenerateRange(prog, mid + 1, hi, left, instructions, table)

\* the second pass of generate_code, from machine_code = []
generate_words(prog, instructions, table) ==
    GenerateRange(prog, 1, Len(prog),
                  [error |-> NoError, machine_code |-> << >>, idx |-> 0],
                  instructions, table)

(***************************************************************************)
(* Inputs                                                                  *)
(***************************************************************************)
Reg == [type |-> "reg"]

Num(lo, hi, transformations) ==
    [type |-> "num", range |-> << lo, hi >>, transformations |-> transformations]

\* a num operand whose catalog record has no 'transformations' field
NumPlain(lo, hi) == [type |-> "num", range |-> << lo, hi >>]

Adr == [type |-> "adr"]

Entry(mnemonic, operands, code_template) ==
    [mnemonic |-> mnemonic, operands |-> operands, code_template |-> code_template]

\* the catalog of the code generator's tests
MOCK_INSTRUCTIONS ==
    << Entry(<< "M", "O", "V" >>, << Reg, Num(0, 255, << >>) >>,
             << "0", "0", "0", "0", "1", "R", "_", "_", "N", "_", "_", "_", "_", "_", "_", "_" >>),
       Entry(<< "J", "M", "P" >>, << Adr >>,
             << "0", "0", "0", "1", "0", "A", "_", "_", "_", "_", "_", "_", "_", "_", "_", "_" >>),
       Entry(<< "A", "D", "D" >>, << Reg, Reg >>,
             << "0", "0", "0", "1", "1", "R", "_", "_", "R", "_", "_", "0", "0", "0", "0", "0" >>),
       Entry(<< "A", "D", "I" >>, << Reg, Num(0, 30, << "div2", "dec" >>) >>,
             << "0", "0", "1", "0", "0", "R", "_", "_", "N", "_", "_", "_", "_", "_", "_", "_" >>) >>

\* further entries that the loader accepts: no operand; a num operand without
\* transformations; a num operand declared before a reg operand whose run lies
\* after another R run
MORE_INSTRUCTIONS ==
    << Entry(<< "N", "O", "P" >>, << >>,
             << "0", "0", "0", "0", "0", "0", "0", "0", "0", "0", "0", "0", "0", "0", "0", "0" >>),
       Entry(<< "L", "D", "I" >>, << Reg, NumPlain(-8, 7) >>,
             << "0", "1", "0", "0", "0", "R", "_", "_", "0", "0", "0", "0", "N", "_", "_", "_" >>),
       Entry(<< "S", "W", "P" >>, << Num(0, 3, << >>), Reg >>,
             << "0", "1", "1", "0", "0", "0", "0", "R", "_", "_", "N", "_", "R", "_", "_", "0" >>) >>

Catalogs == { MOCK_INSTRUCTIONS \o MORE_INSTRUCTIONS }

\* the lines a source text is made of
SourceLines ==
    { << ".", "a", ":" >>,
      << ".", "b", ":" >>,
      << "J", "M", "P", " ", ".", "a" >>,
      << "J", "M", "P", " ", ".", "b" >>,
      << "M", "O", "V", " ", "R", "1", ",", " ", "5" >>,
      << "M", "O", "V", " ", "R", "1", ",", " ", "2", "5", "6" >>,
      << "M", "O", "V", " ", "R", "1", ",", " ", "0", "5" >>,
      << "S", "W", "P", " ", "2", " ", "R", "1" >>,
      << "R", "1" >>,
      << "M", "O", "V", " ", "?" >> }

MaxLines == 3

RECURSIVE Join(_)
\* the lines, each ended by a newline
Join(lines) ==
    IF lines = << >> THEN << >>
    ELSE Head(lines) \o << "\n" >> \o Join(Tail(lines))

\* the end-to-end scenario of the code generator's tests, as source text
EndToEndSource ==
    << ".", "s", "t", "a", "r", "t", ":" >> \o << "\n" >>
    \o << "M", "O", "V", " ", "R", "1", ",", " ", "5" >> \o << "\n" >>
    \o << ".", "l", "o", "o", "p", ":" >> \o << "\n" >>
    \o << "A", "D", "D", " ", "R", "1", ",", " ", "R", "2" >> \o << "\n" >>
    \o << "J", "M", "P", " ", ".", "l", "o", "o", "p" >>

Sources ==
    { Join(ls) : ls \in UNION { [1..n -> SourceLines] : n \in 0..MaxLines } }
    \cup { EndToEndSource }

NopStatement(line) ==
    [type |-> "instruction", mnemonic |-> << "N", "O", "P" >>, arguments |-> << >>,
     line |-> line, column |-> 1]

LabelNamed(name, line) ==
    [type |-> "label", label |-> name, line |-> line, column |-> 1]

\* a program of n instructions, one statement per line, with Label statements
\* before the first and after the last instruction
LongProgram(before, n, after) ==
    [i \in 1..(Len(before) + n + Len(after)) |->
        IF i <= Len(before) THEN LabelNamed(before[i], i)
        ELSE IF i <= Len(before) + n THEN NopStatement(i)
        ELSE LabelNamed(after[i - Len(before) - n], i)]

LongPrograms ==
    { LongProgram(before, n, after) :
        before \in { << >>, << << ".", "a" >> >> },
        n \in { MAX_PROGRAM_SIZE, MAX_PROGRAM_SIZE + 1 },
        after \in { << >>, << << ".", "a" >> >> } }

\* the statement of the line `JMP .b`
JumpStatement(line) ==
    InstructionStatement(Token("MNEMONIC", << "J", "M", "P" >>, line, 1),
                         << Token("IDENT", << ".", "b" >>, line, 5) >>)

\* the long programs with the first or the last instruction turned into a
\* jump to a label that no statement defines
ReferringPrograms ==
    { [LongProgram(before, n, after) EXCEPT
          ![Len(before) + (IF last THEN n ELSE 1)] =
              JumpStatement(Len(before) + (IF last THEN n ELSE 1))] :
        before \in { << >>, << << ".", "a" >> >> },
        n \in { MAX_PROGRAM_SIZE, MAX_PROGRAM_SIZE + 1 },
        after \in { << >>, << << ".", "a" >> >> },
        last \in BOOLEAN }

\* the tokenizer and the parser on a source text
ParseSource(src) ==
    LET t == tokenize(src)
    IN  IF t.ok THEN parse(t.tokens)
        ELSE [ok |-> FALSE, program |-> << >>, error |-> t.error]

\* the programs the parser returns for the source texts
ParsedPrograms ==
    { r.program : r \in { q \in { ParseSource(src) : src \in Sources } : q.ok } }

(***************************************************************************)
(* The run: Assembler.assemble, or the validator and the code generator    *)
(* called on a parsed program                                              *)
(***************************************************************************)
Running(stage) == pc = stage /\ err = NoError

\* self.tokenizer.tokenize(code)
Tokenize ==
    /\ Running("tokenize")
    /\ \E r \in { tokenize(code) } :
           IF r.ok
           THEN /\ tokens' = r.tokens
                /\ pc' = "parse"
                /\ err' = err
           ELSE /\ err' = r.error
                /\ UNCHANGED << tokens, pc >>
    /\ UNCHANGED << call, code, instructions_json, program, v_instructions, g_instructions,
                    symbol_table, idx, address, machine_code, validated, result >>

\* an assemble that hands the parsed program to the code generator unvalidated
ParseThenGenerate ==
    /\ Running("parse")
    /\ \E r \in { parse(tokens) } :
           IF r.ok
           THEN /\ program' = r.program
                /\ pc' = "construct"
                /\ err' = err
           ELSE /\ err' = r.error
                /\ UNCHANGED << program, pc >>
    /\ UNCHANGED << call, code, instructions_json, tokens, v_instructions, g_instructions,
                    symbol_table, idx, address, machine_code, validated, result >>

\* AssemblerParser(tokens).parse()
Parse ==
    /\ Running("parse")
    /\ \E r \in { parse(tokens) } :
           IF r.ok
           THEN /\ program' = r.program
                /\ pc' = "validate"
                /\ err' = err
           ELSE /\ err' = r.error
                /\ UNCHANGED << program, pc >>
    /\ UNCHANGED << call, code, instructions_json, tokens, v_instructions, g_instructions,
                    symbol_table, idx, address, machine_code, validated, result >>

\* self.validator.validate(parsed_program)
Validate ==
    /\ Running("validate")
    /\ \E r \in { validate(program, v_instructions) } :
           /\ err' = r.error
           /\ IF r.error = NoError
              THEN validated' = TRUE /\ pc' = "construct" /\ idx' = 0
              ELSE idx' = r.idx /\ UNCHANGED << validated, pc >>
    /\ UNCHANGED << call, code, instructions_json, tokens, program, v_instructions,
                    g_instructions, symbol_table, address, machine_code, result >>

\* AssemblerCodeGenerator(program): the catalog is loaded and validated, the
\* symbol table is empty
Construct ==
    /\ Running("construct")
    /\ \E l \in { load_instructions(instructions_json) } :
           IF l.raised = "ok"
           THEN /\ g_instructions' = l.instructions
                /\ symbol_table' = << >>
                /\ machine_code' = << >>
                /\ address' = 0
                /\ idx' = 0
                /\ pc' = "resolve_labels"
                /\ err' = err
           ELSE /\ err' = Error(l.raised, NoneLoc, NoneLoc)
                /\ UNCHANGED << g_instructions, symbol_table, machine_code, address,
                                idx, pc >>
    /\ UNCHANGED << call, code, instructions_json, tokens, program, v_instructions,
                    validated, result >>

\* generate_code, first pass: self._resolve_labels()
ResolveLabels ==
    /\ Running("resolve_labels")
    /\ \E r \in { resolve_labels(program, symbol_table) } :
           /\ symbol_table' = r.table
           /\ address' = r.address
           /\ err' = r.error
           /\ IF r.error = NoError
              THEN pc' = "generate" /\ idx' = 0
              ELSE pc' = pc /\ idx' = r.idx
    /\ UNCHANGED << call, code, instructions_json, tokens, program, v_instructions,
                    g_instructions, machine_code, validated, result >>

\* generate_code, second pass, and the return of the list
Generate ==
    /\ Running("generate")
    /\ \E r \in { generate_words(program, g_instructions, symbol_table) } :
           /\ machine_code' = r.machine_code
           /\ err' = r.error
           /\ IF r.error = NoError
              THEN result' = r.machine_code /\ pc' = "done" /\ idx' = 0
              ELSE idx' = r.idx /\ UNCHANGED << result, pc >>
    /\ UNCHANGED << call, code, instructions_json, tokens, program, v_instructions,
                    g_instructions, symbol_table, address, validated >>

\* no static method has been called directly
NoCall == [number |-> 0, n_bits |-> 0, returned |-> << >>]

\* the state every run starts from: Assembler() has built its validator
Fresh ==
    /\ instructions_json \in Catalogs
    /\ v_instructions = ToDict(instructions_json)
    /\ g_instructions = << >>
    /\ symbol_table = << >>
    /\ idx = 0
    /\ address = 0
    /\ machine_code = << >>
    /\ validated = FALSE
    /\ result = << >>
    /\ err = NoError
    /\ call = NoCall

\* Assembler.assemble(code)
Init ==
    /\ Fresh
    /\ code \in Sources
    /\ tokens = << >>
    /\ program = << >>
    /\ pc = "tokenize"

Next ==
    \/ Tokenize
    \/ Parse
    \/ Validate
    \/ Construct
    \/ ResolveLabels
    \/ Generate

Spec == Init /\ [][Next]_vars

\* the validator and the code generator, or the code generator alone, called on
\* a parsed program
InitGen ==
    /\ Fresh
    /\ code = << >>
    /\ tokens = << >>
    /\ \/ program \in ParsedPrograms /\ pc \in { "validate", "construct" }
       \/ program \in LongPrograms \cup ReferringPrograms /\ pc = "construct"

NextGen ==
    \/ Validate
    \/ Construct
    \/ ResolveLabels
    \/ Generate

SpecGen == InitGen /\ [][NextGen]_vars

(***************************************************************************)
(* The loader called on one catalog file                                   *)
(***************************************************************************)
\* pieces of four characters a code template is put together from
TemplatePieces ==
    { << "0", "1", "0", "1" >>,
      << "1", "R", "_", "_" >>,
      << "N", "_", "0", "0" >>,
      << "A", "_", "_", "_" >>,
      << "R", "_", "N", "_" >> }

\* code templates of CODE_TEMPLATE_LENGTH characters
Templates ==
    { a \o b \o c \o d :
        a \in TemplatePieces, b \in TemplatePieces,
        c \in TemplatePieces, d \in TemplatePieces }

\* the operand lists of the catalog entries
OperandLists ==
    { << >>, << Reg >>, << Num(0, 3, << >>) >>, << Adr >>,
      << Reg, Num(0, 3, << >>) >>, << Num(0, 3, << >>), Reg >>, << Reg, Reg >> }

\* catalog files of one entry
CatalogFiles ==
    { << Entry(<< "O", "P" >>, operands, code_template) >> :
        operands \in OperandLists, code_template \in Templates }

\* AssemblerCodeGenerator(program) on a catalog file: the loader reads and
\* validates the file
InitCatalog ==
    /\ instructions_json \in CatalogFiles
    /\ v_instructions = ToDict(instructions_json)
    /\ g_instructions = << >>
    /\ symbol_table = << >>
    /\ idx = 0
    /\ address = 0
    /\ machine_code = << >>
    /\ validated = FALSE
    /\ result = << >>
    /\ err = NoError
    /\ call = NoCall
    /\ code = << >>
    /\ tokens = << >>
    /\ program = << >>
    /\ pc = "construct"

NextCatalog == Construct

SpecCatalog == InitCatalog /\ [][NextCatalog]_vars

(***************************************************************************)
(* The tokenizer and the parser called on a source text                    *)
(***************************************************************************)
\* the pieces a source text is put together from
SourcePieces ==
    { << "M", "O", "V" >>,
      << "R", "1" >>,
      << ".", "a", ":" >>,
      << ".", "a" >>,
      << "5" >>,
      << " " >>,
      << "\n" >>,
      << "\r", "\n" >>,
      << "\r" >>,
      << "@" >>,
      << ";" >> }

MaxPieces == 3

RECURSIVE Concat(_)
\* the pieces one after the other
Concat(pieces) ==
    IF pieces = << >> THEN << >> ELSE Head(pieces) \o Concat(Tail(pieces))

PiecedSources ==
    { Concat(ps) : ps \in UNION { [1..n -> SourcePieces] : n \in 0..MaxPieces } }

\* AssemblerTokenizer().tokenize(code), then AssemblerParser(tokens).parse()
InitLex ==
    /\ Fresh
    /\ code \in PiecedSources
    /\ tokens = << >>
    /\ program = << >>
    /\ pc = "tokenize"

NextLex ==
    \/ Tokenize
    \/ Parse

SpecLex == InitLex /\ [][NextLex]_vars

(***************************************************************************)
(* The validator called on a parsed program                                *)
(***************************************************************************)
\* the operands of the instructions: what the tokenizer makes a REGISTER, an
\* IDENT, a DEC, a HEX or a BIN token of
OperandTexts ==
    { << "R", "7" >>,
      << "R", "8" >>,
      << "R", "0", "7" >>,
      << ".", "a" >>,
      << "5" >>,
      << "0", "5" >>,
      << "2", "5", "6" >>,
      << "-", "1" >>,
      << "1", "0", "2", "3" >>,
      << "1", "0", "2", "4" >>,
      << "0", "x", "F", "F" >>,
      << "0", "x", "4", "0", "0" >>,
      << "0", "b", "1", "1" >>,
      << "-", "0", "b", "1" >> }

\* the mnemonics of the instructions: four of the catalog and one unknown to it
MnemonicTexts ==
    { << "M", "O", "V" >>,
      << "J", "M", "P" >>,
      << "A", "D", "D" >>,
      << "L", "D", "I" >>,
      << "F", "O", "O" >> }

MaxOperands == 2

RECURSIVE JoinOperands(_)
\* the operands of a source line, each after a separator
JoinOperands(operands) ==
    IF operands = << >> THEN << >>
    ELSE << ",", " " >> \o Head(operands) \o JoinOperands(Tail(operands))

\* the source lines of one instruction
InstructionLines ==
    { m \o JoinOperands(os) :
        m \in MnemonicTexts,
        os \in UNION { [1..n -> OperandTexts] : n \in 0..MaxOperands } }

\* source lines with no, one and several violations
OrderLines ==
    { << ".", "a", ":" >>,
      << "M", "O", "V", " ", "5" >>,
      << "F", "O", "O", " ", "R", "1" >>,
      << "M", "O", "V", " ", "R", "8", ",", " ", "2", "5", "6" >>,
      << "M", "O", "V", " ", "R", "1", ",", " ", "5" >>,
      << "J", "M", "P", " ", ".", "b" >> }

MaxStatements == 2

\* the programs the parser returns for one instruction, and for a few lines
ValidatorPrograms ==
    { ParseSource(l).program : l \in InstructionLines }
    \cup { ParseSource(Join(ls)).program :
             ls \in UNION { [1..n -> OrderLines] : n \in 1..MaxStatements } }

\* AssemblerValidator().validate(program)
InitValidate ==
    /\ Fresh
    /\ code = << >>
    /\ tokens = << >>
    /\ program \in ValidatorPrograms
    /\ pc = "validate"

NextValidate == Validate

SpecValidate == InitValidate /\ [][NextValidate]_vars

(***************************************************************************)
(* _int_to_bin called on a number and a width                              *)
(***************************************************************************)
MaxNumber == 40

MaxBits == 4

\* AssemblerCodeGenerator._int_to_bin(number, n_bits), about to be called
InitIntToBin ==
    /\ instructions_json \in Catalogs
    /\ v_instructions = ToDict(instructions_json)
    /\ g_instructions = << >>
    /\ symbol_table = << >>
    /\ idx = 0
    /\ address = 0
    /\ machine_code = << >>
    /\ validated = FALSE
    /\ result = << >>
    /\ err = NoError
    /\ code = << >>
    /\ tokens = << >>
    /\ program = << >>
    /\ call \in [number : (0 - MaxNumber)..MaxNumber, n_bits : 1..MaxBits,
                  returned : { << >> }]
    /\ pc = "int_to_bin"

\* return format(number & ((1 << n_bits) - 1), f"0{n_bits}b")
IntToBin ==
    /\ Running("int_to_bin")
    /\ call' = [call EXCEPT !.returned = int_to_bin(call.number, call.n_bits)]
    /\ pc' = "returned"
    /\ UNCHANGED << code, instructions_json, tokens, program, v_instructions,
                    g_instructions, symbol_table, idx, address, machine_code,
                    validated, result, err >>

NextIntToBin == IntToBin

SpecIntToBin == InitIntToBin /\ [][NextIntToBin]_vars

(***************************************************************************)
(* _transform_operand called on a number and a list of transformations     *)
(***************************************************************************)
\* the argument `transformations`: None, or a list
NoneArgument == [is_none |-> TRUE, list |-> << >>]

ListArgument(list) == [is_none |-> FALSE, list |-> list]

\* _transform_operand(num, transformations=None)
transform_operand_call(num, transformations) ==
    IF transformations.is_none THEN num
    ELSE transform_operand(num, transformations.list)

MaxTransformations == 2

TransformationLists ==
    UNION { [1..n -> VALID_TRANSFORMATIONS] : n \in 0..MaxTransformations }

\* AssemblerCodeGenerator._transform_operand(num, transformations), about to
\* be called
InitTransform ==
    /\ instructions_json \in Catalogs
    /\ v_instructions = ToDict(instructions_json)
    /\ g_instructions = << >>
    /\ symbol_table = << >>
    /\ idx = 0
    /\ address = 0
    /\ machine_code = << >>
    /\ validated = FALSE
    /\ result = << >>
    /\ err = NoError
    /\ code = << >>
    /\ tokens = << >>
    /\ program = << >>
    /\ \E num \in (0 - MaxNumber)..MaxNumber :
       \E transformations \in { NoneArgument } \cup
                              { ListArgument(l) : l \in TransformationLists } :
           call = [num |-> num, transformations |-> transformations, returned |-> 0]
    /\ pc = "transform_operand"

TransformOperand ==
    /\ Running("transform_operand")
    /\ call' = [call EXCEPT !.returned =
                    transform_operand_call(call.num, call.transformations)]
    /\ pc' = "transform_returned"
    /\ UNCHANGED << code, instructions_json, tokens, program, v_instructions,
                    g_instructions, symbol_table, idx, address, machine_code,
                    validated, result, err >>

NextTransform == TransformOperand

SpecTransform == InitTransform /\ [][NextTransform]_vars

\* Assembler.assemble from the validation phase on, for the programs of one
\* instruction
SpecEncode == InitValidate /\ [][NextGen]_vars

(***************************************************************************)
(* The two catalog files of a checkout                                     *)
(***************************************************************************)
\* a directory without instructions.json, and one with it
Absent == [exists |-> FALSE, content |-> << >>]

File(content) == [exists |-> TRUE, content |-> content]

\* another instructions.json: INC is in no other file, MOV takes two registers
NEARER_INSTRUCTIONS ==
    << Entry(<< "I", "N", "C" >>, << Reg >>,
             << "1", "1", "1", "1", "1", "R", "_", "_", "0", "0", "0", "0", "0", "0", "0", "0" >>),
       Entry(<< "M", "O", "V" >>, << Reg, Reg >>,
             << "0", "0", "0", "0", "1", "R", "_", "_", "R", "_", "_", "0", "0", "0", "0", "0" >>) >>

FileContents == Catalogs \cup { NEARER_INSTRUCTIONS }

\* the directories from the one of the modules up to the repository root, the
\* one with .git: src/Assembler, src and the root, whose instructions.json exists
Checkouts ==
    { << a, b, File(c) >> :
        a \in { Absent } \cup { File(x) : x \in FileContents },
        b \in { Absent } \cup { File(x) : x \in FileContents },
        c \in FileContents }

RECURSIVE FirstCandidate(_, _)
\* AssemblerValidator._load_instructions: the first instructions.json on the way
\* up from the directory of the module, as a dictionary; it is not validated
FirstCandidate(dirs, i) ==
    IF dirs[i].exists THEN ToDict(dirs[i].content) ELSE FirstCandidate(dirs, i + 1)

\* InstructionLoader._load_file: root / "instructions.json"
RootFile(dirs) == dirs[Len(dirs)].content

FileLines ==
    { << "I", "N", "C", " ", "R", "1" >>,
      << "M", "O", "V", " ", "R", "1", ",", " ", "R", "2" >>,
      << "M", "O", "V", " ", "R", "1", ",", " ", "5" >>,
      << "N", "O", "P" >> }

FilePrograms ==
    { ParseSource(Join(ls)).program :
        ls \in UNION { [1..n -> FileLines] : n \in 1..MaxStatements } }

\* Assembler() in a checkout, and assemble from the validation phase on
InitFiles ==
    /\ \E dirs \in Checkouts :
           /\ v_instructions = FirstCandidate(dirs, 1)
           /\ instructions_json = RootFile(dirs)
    /\ g_instructions = << >>
    /\ symbol_table = << >>
    /\ idx = 0
    /\ address = 0
    /\ machine_code = << >>
    /\ validated = FALSE
    /\ result = << >>
    /\ err = NoError
    /\ call = NoCall
    /\ code = << >>
    /\ tokens = << >>
    /\ program \in FilePrograms
    /\ pc = "validate"

SpecFiles == InitFiles /\ [][NextGen]_vars

(***************************************************************************)
(* generate_code called twice on one code generator                        *)
(***************************************************************************)
\* generate_code called again on the instance whose first call has returned
\* `result`: machine_code = [], and the symbol table is as the first call left it
GenerateAgain ==
    /\ Running("done")
    /\ call = NoCall
    /\ call' = [first |-> result]
    /\ machine_code' = << >>
    /\ pc' = "resolve_labels"
    /\ UNCHANGED << code, instructions_json, tokens, program, v_instructions,
                    g_instructions, symbol_table, idx, address, validated, result,
                    err >>

NextAgain ==
    \/ Validate
    \/ Construct
    \/ ResolveLabels
    \/ Generate
    \/ GenerateAgain

SpecAgain == InitGen /\ [][NextAgain]_vars

(***************************************************************************)
(* Properties                                                              *)
(***************************************************************************)
IsLabel(s) == s.type = "label"

IsInstruction(s) == s.type = "instruction"

\* the Instruction statements of a program, in source order
InstructionStatements(prog) == SelectSeq(prog, IsInstruction)

LabelIndexes(prog) == { i \in DOMAIN prog : IsLabel(prog[i]) }

\* the number of Instruction statements before the i-th statement
InstructionsBefore(prog, i) ==
    Cardinality({ j \in 1..(i - 1) : IsInstruction(prog[j]) })

\* the indexes of the Label statements whose name an earlier Label statement has
RepeatedLabels(prog) ==
    LET L == LabelIndexes(prog)
    IN  { i \in L : \E j \in L : j < i /\ prog[j].label = prog[i].label }

Min(S) == CHOOSE x \in S : \A y \in S : x <= y

\* pass 1 has returned, or has raised
PassOneReturned == pc \in { "generate", "done" }

PassOneEnded == PassOneReturned \/ (pc = "resolve_labels" /\ err # NoError)

\* the operand specifications of the statement's mnemonic in the generator's catalog
SpecOperands(s) ==
    IF upper(s.mnemonic) \in DOMAIN g_instructions
    THEN g_instructions[upper(s.mnemonic)].operands
    ELSE << >>

\* the operands of an Instruction statement that name a label as an address
LabelOperands(s) ==
    { k \in DOMAIN s.arguments :
        /\ k <= Len(SpecOperands(s))
        /\ SpecOperands(s)[k].type = "adr"
        /\ s.arguments[k].type = "IDENT" }

ExpectedWords ==
    << << "0", "0", "0", "0", "1", "0", "0", "1", "0", "0", "0", "0", "0", "1", "0", "1" >>,
       << "0", "0", "0", "1", "1", "0", "0", "1", "0", "1", "0", "0", "0", "0", "0", "0" >>,
       << "0", "0", "0", "1", "0", "0", "0", "0", "0", "0", "0", "0", "0", "0", "0", "1" >> >>

\* C1: the five-line end-to-end source assembles, without an error, to exactly
\* the three words 0000100100000101, 0001100101000000, 0001000000000001.
C1_EndToEnd ==
    code = EndToEndSource =>
        /\ err = NoError
        /\ pc = "done" => result = ExpectedWords

C1_Witness ==
    /\ code = EndToEndSource
    /\ pc = "done"
    /\ Len(result) = 3
    /\ Len(program) = 5

\* C2: when generate_code returns, the list has one word per Instruction
\* statement, the i-th word encodes the i-th Instruction statement in source
\* order, and Label statements contribute no word.
C2_OneWordPerInstruction ==
    pc = "done" =>
        LET ins == InstructionStatements(program)
        IN  /\ Len(result) = Len(ins)
            /\ \A i \in DOMAIN ins :
                   result[i] = generate_instruction(ins[i], g_instructions,
                                                    symbol_table).word

C2_Witness ==
    /\ pc = "done"
    /\ \E i \in DOMAIN program : IsLabel(program[i])
    /\ Len(result) >= 2
    /\ result[1] # result[2]

\* C3: every word generate_code returns for a validated program, under a catalog
\* the loader accepted, is 16 characters long and made of '0' and '1' only.
C3_WordsAreBinary ==
    (pc = "done" /\ validated) =>
        \A i \in DOMAIN result :
            /\ Len(result[i]) = CODE_TEMPLATE_LENGTH
            /\ Range(result[i]) \subseteq { "0", "1" }

\* C4: after a successful pass 1 the symbol table holds exactly the program's
\* labels, each mapped to the number of Instruction statements before its Label
\* statement.
C4_LabelAddresses ==
    PassOneReturned =>
        /\ DOMAIN symbol_table = { program[i].label : i \in LabelIndexes(program) }
        /\ \A i \in LabelIndexes(program) :
               symbol_table[program[i].label] = InstructionsBefore(program, i)

C4_Witness ==
    /\ PassOneReturned
    /\ Len(program) >= 3
    /\ IsLabel(program[1]) /\ IsLabel(program[2])
    /\ program[1].label # program[2].label
    /\ symbol_table[program[1].label] = 0
    /\ symbol_table[program[2].label] = 0
    /\ IsInstruction(program[3])

\* C5: an instruction whose only operand is an address given as a label name is
\* encoded with the address of that label's Label statement, wherever in the
\* program the label is defined.
C5_LabelReferences ==
    pc = "done" =>
        LET ins == InstructionStatements(program)
        IN  \A i \in DOMAIN ins :
                (Len(SpecOperands(ins[i])) = 1 /\ LabelOperands(ins[i]) = { 1 }) =>
                    \E d \in LabelIndexes(program) :
                        /\ program[d].label = ins[i].arguments[1].value
                        /\ result[i] =
                             replace_placeholder(
                                 g_instructions[upper(ins[i].mnemonic)].code_template,
                                 "A", InstructionsBefore(program, d)).text

\* a label at a non-zero address, referenced before and after its definition
C5_Witness ==
    /\ pc = "done"
    /\ Len(program) <= 4
    /\ \E d \in LabelIndexes(program) :
           /\ InstructionsBefore(program, d) > 0
           /\ \E j \in 1..(d - 1) :
                  /\ IsInstruction(program[j])
                  /\ LabelOperands(program[j]) = { 1 }
                  /\ program[j].arguments[1].value = program[d].label
    /\ Len(result) >= 2

\* C6 as stated: whenever two Label statements have the same name, pass 1 raises
\* DuplicateLabel with the line of the second occurrence.
C6_DuplicateAlwaysRaised ==
    (PassOneEnded /\ RepeatedLabels(program) # { }) =>
        /\ err.kind = "DuplicateLabelError"
        /\ err.line = program[Min(RepeatedLabels(program))].line

\* C6 as amended: when two Label statements have the same name and at most
\* MAX_PROGRAM_SIZE Instruction statements precede the second occurrence, pass 1
\* raises DuplicateLabel with the line of the second occurrence and no column;
\* with more instructions before it, pass 1 has raised ProgramTooLong already.
C6_DuplicateLabel ==
    (PassOneEnded /\ RepeatedLabels(program) # { }) =>
        LET second == Min(RepeatedLabels(program))
        IN  IF InstructionsBefore(program, second) <= MAX_PROGRAM_SIZE
            THEN /\ pc = "resolve_labels"
                 /\ err = Error("DuplicateLabelError", program[second].line, NoneLoc)
                 /\ idx = second - 1
            ELSE err.kind = "ProgramTooLongError"

C6_Witness ==
    /\ pc = "resolve_labels"
    /\ err.kind = "DuplicateLabelError"
    /\ RepeatedLabels(program) # { }
    /\ err.line = program[Min(RepeatedLabels(program))].line
    /\ \E j \in LabelIndexes(program) :
           /\ program[j].label = program[Min(RepeatedLabels(program))].label
           /\ program[j].line < err.line

\* C7: for a program without duplicate labels, pass 1 raises ProgramTooLong if
\* and only if the program has more than MAX_PROGRAM_SIZE Instruction statements,
\* and then with the line of instruction number MAX_PROGRAM_SIZE + 1.
C7_ProgramTooLong ==
    (PassOneEnded /\ RepeatedLabels(program) = { }) =>
        LET ins == InstructionStatements(program)
        IN  IF Len(ins) > MAX_PROGRAM_SIZE
            THEN /\ pc = "resolve_labels"
                 /\ err = Error("ProgramTooLongError", ins[MAX_PROGRAM_SIZE + 1].line,
                                NoneLoc)
            ELSE PassOneReturned

\* a program with a label before its instructions is refused at instruction 1025
C7_Witness ==
    /\ pc = "resolve_labels"
    /\ err.kind = "ProgramTooLongError"
    /\ IsLabel(program[1])
    /\ address = MAX_PROGRAM_SIZE + 1
    /\ err.line = MAX_PROGRAM_SIZE + 2

\* C8: pass 2 raises UndefinedLabel only for an address operand that names a
\* label absent from the symbol table, with that operand token's line and
\* column; an operand naming a label in the table, at address 0 too, passes, and
\* no operand naming an absent label is passed over.
C8_UndefinedLabel ==
    pc \in { "generate", "done" } =>
        /\ err.kind = "UndefinedLabelError" =>
               \E k \in LabelOperands(program[idx + 1]) :
                   LET operand == program[idx + 1].arguments[k]
                   IN  /\ operand.value \notin DOMAIN symbol_table
                       /\ err.line = operand.line
                       /\ err.column = operand.start_column
        /\ \A j \in 1..(IF pc = "done" THEN Len(program) ELSE idx) :
               IsInstruction(program[j]) =>
                   \A k \in LabelOperands(program[j]) :
                       program[j].arguments[k].value \in DOMAIN symbol_table

\* an undefined label is reported after a reference to a label at address 0
\* has been encoded
C8_Witness ==
    /\ pc = "generate"
    /\ err.kind = "UndefinedLabelError"
    /\ err.column > 1
    /\ \E j \in 1..idx :
           /\ IsInstruction(program[j])
           /\ LabelOperands(program[j]) = { 1 }
           /\ symbol_table[program[j].arguments[1].value] = 0

\* the statements of the program that the validator refuses
Refused(prog) ==
    { i \in DOMAIN prog :
        IsInstruction(prog[i]) /\ validate_instruction(prog[i], v_instructions) # NoError }

\* C9: assemble reports the error of the earliest failing stage and runs no
\* stage after a failure: the parser runs on the tokenizer's tokens only, the
\* validator on the parser's program only, and the code generator only on a
\* program in which the validator refuses nothing, so that an operand out of
\* range is reported even when a label is undefined or defined twice.
C9_EarliestStage ==
    /\ pc = "tokenize" =>
           tokens = << >> /\ program = << >> /\ ~validated
    /\ pc \in { "tokenize", "parse" } =>
           program = << >> /\ ~validated /\ idx = 0
    /\ pc \in { "tokenize", "parse", "validate" } =>
           /\ g_instructions = << >> /\ symbol_table = << >> /\ machine_code = << >>
           /\ err.kind \notin { "DuplicateLabelError", "UndefinedLabelError",
                                "ProgramTooLongError" }
    /\ pc \in { "construct", "resolve_labels", "generate", "done" } =>
           validated /\ Refused(program) = { }
    /\ Refused(program) # { } =>
           /\ pc = "validate"
           /\ err # NoError =>
                  err = validate_instruction(program[Min(Refused(program))],
                                             v_instructions)

\* a value out of range is reported although a label referenced earlier in the
\* source is defined nowhere
C9_Witness ==
    /\ pc = "validate"
    /\ err.kind = "ValueOutOfRangeError"
    /\ \E j \in 1..idx :
           /\ IsInstruction(program[j])
           /\ \E k \in DOMAIN program[j].arguments :
                  /\ program[j].arguments[k].type = "IDENT"
                  /\ \A d \in LabelIndexes(program) :
                         program[d].label # program[j].arguments[k].value

\* C10: assemble returns the whole list of words or raises one error of the
\* typed taxonomy, never an exception of another kind.
C10_TypedErrorsOnly ==
    err # NoError => err.kind \in TypedErrors

\* the loader has returned, or has raised
LoaderEnded == pc = "resolve_labels" \/ (pc = "construct" /\ err # NoError)

\* the offsets from `from` on at which the operand's placeholder letter stands
LetterOffsets(template, operand, from) ==
    { p \in from..(Len(template) - 1) : At(template, p) = Placeholder(operand.type) }

\* the offset just after the run (the letter and its underscores) that starts at p
RunEndAt(template, p) == p + 1 + RunLen(template, p + 1, { "_" })

\* the offset just after the operand's first run from `from` on, one past the
\* template's length when there is none
RunEndFrom(template, operand, from) ==
    IF LetterOffsets(template, operand, from) = { }
    THEN Len(template) + 1
    ELSE RunEndAt(template, Min(LetterOffsets(template, operand, from)))

RECURSIVE RunEnd(_, _, _)
\* the offset at which the part of the template left after the runs of the first
\* i operands begins; one past the template's length when one of them has no run
RunEnd(template, operands, i) ==
    IF i = 0 THEN 0
    ELSE RunEndFrom(template, operands[i], RunEnd(template, operands, i - 1))

\* the offset at which the run of the i-th operand starts
RunStart(template, operands, i) ==
    Min(LetterOffsets(template, operands[i], RunEnd(template, operands, i - 1)))

\* some operand of the entry has no run in the part of the template left to it
MissingRun(entry) ==
    RunEnd(entry.code_template, entry.operands, Len(entry.operands))
        > Len(entry.code_template)

\* the offsets of the template that the operands' runs cover
InRuns(entry) ==
    UNION { RunStart(entry.code_template, entry.operands, i)
                .. (RunEnd(entry.code_template, entry.operands, i) - 1) :
            i \in DOMAIN entry.operands }

\* every operand has its run, and outside the runs a character that is neither
\* 0 nor 1 remains
Leftover(entry) ==
    /\ ~MissingRun(entry)
    /\ \E p \in (0..(Len(entry.code_template) - 1)) \ InRuns(entry) :
           At(entry.code_template, p) \notin { "0", "1" }

\* C11: the loader raises InstructionFormatError for every entry of which an
\* operand has no run of its placeholder letter in the part of the 16-character
\* template left after the runs of the operands before it.
C11_MissingRunIsFormatError ==
    \A i \in DOMAIN instructions_json :
        /\ LoaderEnded
        /\ Len(instructions_json[i].code_template) = CODE_TEMPLATE_LENGTH
        /\ MissingRun(instructions_json[i])
        => err.kind = "InstructionFormatError"

\* C12: the loader raises InstructionFormatError for every 16-character template
\* in which, with one run consumed for each operand, a character other than 0 and
\* 1 remains, to the right or to the left of the runs.
C12_LeftoverIsFormatError ==
    \A i \in DOMAIN instructions_json :
        /\ LoaderEnded
        /\ Len(instructions_json[i].code_template) = CODE_TEMPLATE_LENGTH
        /\ Leftover(instructions_json[i])
        => err.kind = "InstructionFormatError"

Max(S) == CHOOSE x \in S : \A y \in S : x >= y

\* the tokenizer has returned, or has raised
TokenizerEnded == pc \in { "parse", "validate" } \/ (pc = "tokenize" /\ err # NoError)

\* no pattern but the catch-all matches at offset p
OnlyCatchAll(text, p) ==
    /\ p < Len(text)
    /\ \A k \in 1..(Len(TOKEN_SPECIFICATION) - 1) :
           MatchLen(TOKEN_SPECIFICATION[k], text, p) = 0

\* the offset at which the match that follows the one at p starts
NextOffset(text, p) == p + FirstMatch(text, p, 1).length

RECURSIVE MismatchOffset(_, _)
\* the first offset, of those at which the scan from offset p looks for a match,
\* at which only the catch-all matches; -1 when the scan reaches the end
MismatchOffset(text, p) ==
    IF p >= Len(text) THEN -1
    ELSE IF OnlyCatchAll(text, p) THEN p
    ELSE MismatchOffset(text, NextOffset(text, p))

\* the offsets before p that hold a newline
NewlinesBefore(text, p) == { q \in 0..(p - 1) : At(text, q) = "\n" }

\* the 1-indexed line of offset p
LineOf(text, p) == 1 + Cardinality(NewlinesBefore(text, p))

\* the 1-indexed column of offset p
ColumnOf(text, p) ==
    IF NewlinesBefore(text, p) = { } THEN p + 1
    ELSE p - Max(NewlinesBefore(text, p))

\* offset p lies after a ';' of its line
InComment(text, p) ==
    \E q \in 0..(p - 1) :
        /\ At(text, q) = ";"
        /\ NewlinesBefore(text, p) \subseteq NewlinesBefore(text, q)

\* what tokenize has to do with the source whose scan meets at offset p (or not
\* at all, p = -1) a character that only the catch-all matches
UnexpectedCharAt(p) ==
    IF p < 0
    THEN pc # "tokenize"
    ELSE /\ pc = "tokenize"
         /\ err = Error("UnexpectedCharError", LineOf(code, p), ColumnOf(code, p))
         /\ tokens = << >>
         /\ ~InComment(code, p)

\* C13: tokenize raises UnexpectedCharError with the 1-indexed line and column
\* of the first character at which only the catch-all pattern matches, and
\* returns no token list then; a character inside a ';' comment never raises it.
C13_UnexpectedChar ==
    TokenizerEnded => UnexpectedCharAt(MismatchOffset(code, 0))

\* an unexpected character on a line after a comment that the tokenizer passed
C13_Witness ==
    /\ pc = "tokenize"
    /\ err.kind = "UnexpectedCharError"
    /\ err.line > 1
    /\ \E q \in 0..(Len(code) - 1) : At(code, q) = ";"

RECURSIVE NormalizedLineEndings(_)
\* the text with every "\r\n" and every other "\r" replaced by "\n"
NormalizedLineEndings(text) ==
    IF text = << >> THEN << >>
    ELSE IF Head(text) = "\r" /\ Len(text) >= 2 /\ text[2] = "\n"
    THEN NormalizedLineEndings(Tail(text))
    ELSE IF Head(text) = "\r"
    THEN << "\n" >> \o NormalizedLineEndings(Tail(text))
    ELSE << Head(text) >> \o NormalizedLineEndings(Tail(text))

\* the tokenizer has returned the list that `expected` holds
ReturnedTokens(expected) ==
    expected.ok => pc # "tokenize" /\ tokens = expected.tokens

\* C14: a source whose lines end in "\r\n" or "\r" tokenizes without error to
\* the tokens (kinds, texts, lines, columns) of the same source with "\n" line
\* endings.
C14_CarriageReturns ==
    TokenizerEnded => ReturnedTokens(tokenize(NormalizedLineEndings(code)))

\* the parser has returned, or has raised
ParserEnded == pc = "validate" \/ (pc = "parse" /\ err # NoError)

\* the k-th token stands on the line of a MNEMONIC token before it, with nothing
\* but operands between the two
FollowsMnemonic(toks, k) ==
    \E j \in 1..(k - 1) :
        /\ toks[j].type = "MNEMONIC"
        /\ toks[j].line = toks[k].line
        /\ \A i \in (j + 1)..(k - 1) : toks[i].type \in VALID_OPERAND_TYPES

\* the tokens that start no statement and are no operand
Offending(toks) ==
    { k \in DOMAIN toks :
        IF FollowsMnemonic(toks, k)
        THEN toks[k].type \notin VALID_OPERAND_TYPES
        ELSE toks[k].type \notin { "LABEL", "MNEMONIC" } }

\* what parse has to do with the tokens of which those of `offending` start no
\* statement and are no operand
SyntaxErrorAtFirst(offending) ==
    IF offending = { }
    THEN pc = "validate"
    ELSE /\ pc = "parse"
         /\ err = Error("InvalidSyntaxError", tokens[Min(offending)].line,
                        tokens[Min(offending)].start_column)
         /\ program = << >>

\* C15: parse raises InvalidSyntaxError with the line and column of the first
\* token that (a) starts a statement and is neither LABEL nor MNEMONIC, or (b)
\* stands on the line of a preceding MNEMONIC and is no REGISTER, DEC, HEX, BIN
\* or IDENT; it returns no statement list then, and raises nothing otherwise.
C15_SyntaxErrors ==
    ParserEnded => SyntaxErrorAtFirst(Offending(tokens))

\* a second MNEMONIC, or a LABEL, on the line of a MNEMONIC was refused
C15_Witness ==
    /\ pc = "parse"
    /\ err.kind = "InvalidSyntaxError"
    /\ \E k \in DOMAIN tokens :
           /\ tokens[k].type \in { "MNEMONIC", "LABEL" }
           /\ FollowsMnemonic(tokens, k)
           /\ err.line = tokens[k].line
           /\ err.column = tokens[k].start_column


\* validate has returned
ValidatorReturned == pc = "construct" /\ err = NoError

\* validate has raised
ValidatorRaised == pc = "validate" /\ err # NoError

UnknownMnemonic(s) == upper(s.mnemonic) \notin DOMAIN v_instructions

\* the operands the catalog declares for the mnemonic of s
Declared(s) == v_instructions[upper(s.mnemonic)].operands

CountMismatch(s) == Len(s.arguments) # Len(Declared(s))

\* the operands of s that their declaration refuses
BadOperands(s) ==
    { k \in DOMAIN s.arguments :
        validate_operand(s.arguments[k], Declared(s)[k]) # NoError }

\* the statements with a violation: Instructions with an unknown mnemonic, a
\* wrong number of operands or a refused operand
Violating(prog) ==
    { i \in DOMAIN prog :
        /\ IsInstruction(prog[i])
        /\ \/ UnknownMnemonic(prog[i])
           \/ CountMismatch(prog[i])
           \/ BadOperands(prog[i]) # { } }

\* the violation of s that comes first in the order of the checks
FirstViolation(s) ==
    IF UnknownMnemonic(s)
    THEN Error("InvalidInstructionError", s.line, s.column)
    ELSE IF CountMismatch(s)
         THEN Error("InvalidSyntaxError", s.line, s.column)
         ELSE validate_operand(s.arguments[Min(BadOperands(s))],
                               Declared(s)[Min(BadOperands(s))])

\* C16: validate raises the error of the first Instruction in source order
\* that has a violation, and of that Instruction the first violation in the
\* order unknown mnemonic, wrong number of operands, operands in the order of
\* their declaration; it returns when no Instruction has a violation, whatever
\* the Labels of the program are.
C16_FirstViolation ==
    /\ ValidatorReturned => Violating(program) = { }
    /\ ValidatorRaised =>
           /\ Violating(program) # { }
           /\ idx + 1 = Min(Violating(program))
           /\ err = FirstViolation(program[Min(Violating(program))])

\* an Instruction with a wrong number of operands whose first operand is of
\* the wrong kind as well is reported for the number of its operands, although
\* a later Instruction has an unknown mnemonic
C16_Witness ==
    /\ ValidatorRaised
    /\ err.kind = "InvalidSyntaxError"
    /\ Cardinality(Violating(program)) >= 2
    /\ Len(program[idx + 1].arguments) >= 1
    /\ Declared(program[idx + 1])[1].type = "reg"
    /\ program[idx + 1].arguments[1].type # "REGISTER"
    /\ \E j \in Violating(program) : j > idx + 1 /\ UnknownMnemonic(program[j])


RECURSIVE Numeral(_, _)
\* the number that the digits denote in the radix
Numeral(digits, radix) ==
    IF digits = << >> THEN 0
    ELSE Numeral(SubSeq(digits, 1, Len(digits) - 1), radix) * radix
         + DigitValue(digits[Len(digits)])

\* the digits of a literal after its sign, and after 0x or 0b in a HEX or BIN
\* literal
LiteralDigits(text, type) ==
    IF type = "DEC" THEN text ELSE SubSeq(text, 3, Len(text))

\* the integer a HEX, BIN or DEC token denotes in its own radix
Denoted(tok) ==
    LET radix == CASE tok.type = "HEX" -> 16 [] tok.type = "BIN" -> 2 [] OTHER -> 10
    IN  IF tok.value[1] = "-"
        THEN 0 - Numeral(LiteralDigits(Tail(tok.value), tok.type), radix)
        ELSE Numeral(LiteralDigits(tok.value, tok.type), radix)

\* operand k of statement i is declared with the type, and nothing else stops
\* the validator before statement i or in it: the mnemonic is known, the number
\* of operands is the declared one and no other operand is refused
OnlyOperand(i, k, type) ==
    /\ IsInstruction(program[i])
    /\ \A j \in 1..(i - 1) : j \notin Violating(program)
    /\ ~UnknownMnemonic(program[i])
    /\ ~CountMismatch(program[i])
    /\ k \in DOMAIN program[i].arguments
    /\ Declared(program[i])[k].type = type
    /\ BadOperands(program[i]) \subseteq { k }

\* what the validator did with statement i: it went past it, or raised
Verdict(i) ==
    IF ValidatorReturned \/ idx >= i THEN "accepted" ELSE err.kind

\* the statements and operands of the program
Operands(prog) ==
    { ik \in (DOMAIN prog) \X (1..MaxOperands) :
        IsInstruction(prog[ik[1]]) /\ ik[2] \in DOMAIN prog[ik[1]].arguments }

ExpectedOfNum(tok, operand_spec) ==
    IF tok.type \notin { "HEX", "BIN", "DEC" } THEN "InvalidOperandError"
    ELSE IF operand_spec.range[1] <= Denoted(tok) /\ Denoted(tok) <= operand_spec.range[2]
         THEN "accepted"
         ELSE "ValueOutOfRangeError"

\* C17: for a num operand the validator raises InvalidOperandError when the
\* token is not a HEX, BIN or DEC token; otherwise it accepts the token exactly
\* when the integer the literal denotes in its own radix lies in the inclusive
\* range of the declaration, and raises ValueOutOfRangeError when it does not.
C17_NumOperand ==
    ValidatorReturned \/ ValidatorRaised =>
        \A ik \in Operands(program) :
            OnlyOperand(ik[1], ik[2], "num") =>
                Verdict(ik[1]) = ExpectedOfNum(program[ik[1]].arguments[ik[2]],
                                               Declared(program[ik[1]])[ik[2]])


ExpectedOfReg(tok) ==
    IF tok.type # "REGISTER" THEN "InvalidOperandError"
    ELSE IF Numeral(Tail(tok.value), 10) \in 0..7
         THEN "accepted"
         ELSE "InvalidRegisterError"

\* C18: for a reg operand the validator raises InvalidOperandError when the
\* token is not a REGISTER token; otherwise it accepts the token exactly when
\* the decimal number after the R lies in 0..7, and raises InvalidRegisterError
\* when it does not.
C18_RegOperand ==
    ValidatorReturned \/ ValidatorRaised =>
        \A ik \in Operands(program) :
            OnlyOperand(ik[1], ik[2], "reg") =>
                Verdict(ik[1]) = ExpectedOfReg(program[ik[1]].arguments[ik[2]])

\* R8 is refused as the second operand of an Instruction whose first operand,
\* R07, was accepted
C18_Witness ==
    /\ ValidatorRaised
    /\ err.kind = "InvalidRegisterError"
    /\ OnlyOperand(idx + 1, 2, "reg")
    /\ Declared(program[idx + 1])[1].type = "reg"
    /\ program[idx + 1].arguments[1].value = << "R", "0", "7" >>
    /\ program[idx + 1].arguments[2].value = << "R", "8" >>

ExpectedOfAdr(tok) ==
    IF tok.type \notin { "IDENT", "HEX", "BIN", "DEC" } THEN "InvalidOperandError"
    ELSE IF tok.type = "IDENT" THEN "accepted"
    ELSE IF Denoted(tok) \in 0..1023
         THEN "accepted"
         ELSE "InvalidAddressError"

\* C19: for an adr operand the validator raises InvalidOperandError when the
\* token is not an IDENT, HEX, BIN or DEC token; it accepts a numeric token
\* exactly when its value lies in 0..1023 and raises InvalidAddressError when
\* it does not; it accepts every IDENT token, whether the program defines a
\* label of that name or not.
C19_AdrOperand ==
    ValidatorReturned \/ ValidatorRaised =>
        \A ik \in Operands(program) :
            OnlyOperand(ik[1], ik[2], "adr") =>
                Verdict(ik[1]) = ExpectedOfAdr(program[ik[1]].arguments[ik[2]])


\* the direct call of _int_to_bin has returned
IntToBinReturned == pc = "returned"

\* the unsigned value of a string of binary digits
Unsigned(bits) == Numeral(bits, 2)

\* the value of a string of binary digits read as a two's-complement integer
\* of its length
Signed(bits) ==
    IF bits[1] = "1" THEN Unsigned(bits) - Pow2(Len(bits)) ELSE Unsigned(bits)

\* a and b differ by a multiple of 2^w
Congruent(a, b, w) ==
    \E q \in (0 - 2 * MaxNumber)..(2 * MaxNumber) : a - b = q * Pow2(w)

\* C20: for every width w >= 1 and every integer v, _int_to_bin(v, w) returns
\* exactly w characters, each 0 or 1, whose unsigned value lies in 0..2^w - 1
\* and is congruent to v modulo 2^w, that is v mod 2^w; read as a w-bit
\* two's-complement integer the string is congruent to v as well, and a value
\* that does not fit the width is cut to its low w bits, not refused.
C20_IntToBin ==
    IntToBinReturned =>
        /\ err = NoError
        /\ Len(call.returned) = call.n_bits
        /\ \A i \in DOMAIN call.returned : call.returned[i] \in { "0", "1" }
        /\ Unsigned(call.returned) \in 0..(Pow2(call.n_bits) - 1)
        /\ Congruent(Unsigned(call.returned), call.number, call.n_bits)
        /\ Congruent(Signed(call.returned), call.number, call.n_bits)
        /\ ( /\ 0 - Pow2(call.n_bits - 1) <= call.number
             /\ call.number < Pow2(call.n_bits - 1) ) =>
               Signed(call.returned) = call.number

\* a negative number that is still negative after 2^w is added to it is cut to
\* its low w bits
C20_Witness ==
    /\ IntToBinReturned
    /\ call.n_bits >= 2
    /\ call.number + Pow2(call.n_bits) < 0
    /\ Len(call.returned) = call.n_bits


\* _transform_operand has returned
TransformReturned == pc = "transform_returned"

\* what the claim says of one transformation
Step(t, v) ==
    CASE t = "neq" -> IF v = 0 THEN 1 ELSE 0
      [] t = "div2" -> CHOOSE q \in (0 - MaxNumber)..MaxNumber : 2 * q <= v /\ v < 2 * q + 2
      [] t = "dec" -> v - 1

RECURSIVE Composition(_, _)
\* the transformations of the list composed from left to right: the last one
\* is applied to what the ones before it give
Composition(list, v) ==
    IF list = << >> THEN v
    ELSE Step(list[Len(list)], Composition(SubSeq(list, 1, Len(list) - 1), v))

\* C21: _transform_operand(v, ts) is the left-to-right composition of the
\* transformations of ts applied to v, where neq gives 1 for 0 and 0 for every
\* other value, div2 is the floor of the half and dec subtracts 1; the empty
\* list and None give v itself.
C21_TransformOperand ==
    TransformReturned =>
        /\ err = NoError
        /\ call.transformations.is_none => call.returned = call.num
        /\ ~call.transformations.is_none =>
               call.returned = Composition(call.transformations.list, call.num)
        /\ call.transformations.list = << >> => call.returned = call.num

\* ['div2', 'dec'] on 10 gives 4
C21_Witness ==
    /\ TransformReturned
    /\ call.num = 10
    /\ ~call.transformations.is_none
    /\ call.transformations.list = << "div2", "dec" >>
    /\ call.returned = 4


\* generate_code has returned or raised
GenerateEnded == pc = "done" \/ (pc = "generate" /\ err # NoError)

\* the operand declaration with an empty list where it has no transformations
WithEmptyList(operand_spec) ==
    IF operand_spec.type = "num" /\ "transformations" \notin DOMAIN operand_spec
    THEN operand_spec @@ [transformations |-> << >>]
    ELSE operand_spec

\* the catalog with an empty list wherever a num operand has no transformations
WithEmptyLists(instructions) ==
    [m \in DOMAIN instructions |->
        [instructions[m] EXCEPT !.operands =
            [k \in DOMAIN instructions[m].operands |->
                WithEmptyList(instructions[m].operands[k])]]]

\* the statements with a num operand declared without transformations
PlainNumStatements(prog) ==
    { i \in DOMAIN prog :
        /\ IsInstruction(prog[i])
        /\ ~UnknownMnemonic(prog[i])
        /\ \E k \in DOMAIN Declared(prog[i]) :
               /\ Declared(prog[i])[k].type = "num"
               /\ "transformations" \notin DOMAIN Declared(prog[i])[k] }

\* the run ended as generate_code ends with the catalog r stands for
EndedAs(r) ==
    /\ err = r.error
    /\ r.error = NoError => pc = "done" /\ result = r.machine_code

\* C22: a num operand whose declaration the loader accepted without a
\* transformations field is encoded with its value unchanged: code generation
\* gives the words it gives when the declaration has an empty list.
C22_NoTransformationsField ==
    GenerateEnded /\ PlainNumStatements(program) # { } =>
        EndedAs(generate_words(program, WithEmptyLists(g_instructions), symbol_table))


\* the loader has returned the catalog
LoaderReturned == pc = "resolve_labels" /\ err = NoError

RECURSIVE MatchedRuns(_, _, _, _, _)
\* the runs that the loop of _validate_code_template matches for the operands
\* from index i on, as offsets of the whole template: `offset` is where
\* remaining_template begins in it
MatchedRuns(remaining_template, offset, operands, i, runs) ==
    IF i > Len(operands) THEN runs
    ELSE IF ~SearchRun(remaining_template, Placeholder(operands[i].type)).found
    THEN runs
    ELSE MatchedRuns(
             Slice(remaining_template,
                   SearchRun(remaining_template, Placeholder(operands[i].type)).pos
                   + SearchRun(remaining_template, Placeholder(operands[i].type)).length,
                   Len(remaining_template)),
             offset
             + SearchRun(remaining_template, Placeholder(operands[i].type)).pos
             + SearchRun(remaining_template, Placeholder(operands[i].type)).length,
             operands, i + 1,
             Append(runs,
                    [start |-> offset + SearchRun(remaining_template,
                                                  Placeholder(operands[i].type)).pos,
                     width |-> SearchRun(remaining_template,
                                         Placeholder(operands[i].type)).length]))

RECURSIVE SubstitutedRuns(_, _, _, _)
\* the runs that the loop of generate_instruction substitutes for the operands
\* from index i on: each _replace_placeholder searches the whole binary_code
SubstitutedRuns(binary_code, operands, i, runs) ==
    IF i > Len(operands) THEN runs
    ELSE IF ~SearchRun(binary_code, Placeholder(operands[i].type)).found
    THEN runs
    ELSE SubstitutedRuns(
             replace_placeholder(binary_code, Placeholder(operands[i].type), 0).text,
             operands, i + 1,
             Append(runs,
                    [start |-> SearchRun(binary_code, Placeholder(operands[i].type)).pos,
                     width |-> SearchRun(binary_code,
                                         Placeholder(operands[i].type)).length]))

\* C23: for every code template and operand list that the loader accepts, the
\* run (start and width) that code generation substitutes for the i-th operand
\* is the run that the loader matched for the i-th operand, for every i.
C23_SameRuns ==
    LoaderReturned =>
        \A m \in DOMAIN g_instructions :
            SubstitutedRuns(g_instructions[m].code_template,
                            g_instructions[m].operands, 1, << >>)
            = MatchedRuns(g_instructions[m].code_template, 0,
                          g_instructions[m].operands, 1, << >>)


\* the validator has returned and the code generator has loaded its catalog
BothLoaded == validated /\ pc \in { "resolve_labels", "generate", "done" }

\* C24: in one run of assemble the validator and the code generator consult
\* the same catalog: every instruction that the validator accepted has an
\* entry in the catalog of the code generator, with the same operand list, and
\* generate_instruction never fails to find the mnemonic it looks up.
C24_SameCatalog ==
    BothLoaded =>
        /\ \A i \in DOMAIN program :
               IsInstruction(program[i]) =>
                   /\ upper(program[i].mnemonic) \in DOMAIN g_instructions
                   /\ g_instructions[upper(program[i].mnemonic)].operands
                      = v_instructions[upper(program[i].mnemonic)].operands
        /\ err.kind # "TypeError"


\* tokenize has returned its list
TokenizerReturned == pc \in { "parse", "validate" }

RECURSIVE EmittedStarts(_, _, _)
\* the offsets, from p on, at which the matches start that are neither comments
\* nor newlines nor whitespace and commas
EmittedStarts(text, p, starts) ==
    IF p >= Len(text) THEN starts
    ELSE EmittedStarts(text, NextOffset(text, p),
                       IF FirstMatch(text, p, 1).type \in { "COMMENT", "NEWLINE", "SKIP" }
                       THEN starts
                       ELSE Append(starts, p))

\* the tokens stand at the offsets `starts` of the source, each with the line
\* and the column of its offset
TokensAt(starts) ==
    /\ Len(tokens) = Len(starts)
    /\ \A k \in DOMAIN tokens :
           /\ tokens[k].line = LineOf(code, starts[k])
           /\ tokens[k].start_column = ColumnOf(code, starts[k])

\* C25: when tokenize returns, every token has line 1 + the number of newline
\* characters before its start and column 1 + the number of characters between
\* the last newline before it (or the start of the text) and its start; no
\* token is a COMMENT, a NEWLINE or a SKIP, and (line, column) increases
\* strictly along the list.
C25_LinesAndColumns ==
    TokenizerReturned =>
        /\ TokensAt(EmittedStarts(code, 0, << >>))
        /\ \A k \in DOMAIN tokens : tokens[k].type \notin { "COMMENT", "NEWLINE", "SKIP" }
        /\ \A k \in 1..(Len(tokens) - 1) :
               \/ tokens[k].line < tokens[k + 1].line
               \/ /\ tokens[k].line = tokens[k + 1].line
                  /\ tokens[k].start_column < tokens[k + 1].start_column

\* a token at the start of line 2, after a comment that fills line 1
C25_Witness ==
    /\ TokenizerReturned
    /\ Len(code) > 0
    /\ At(code, 0) = ";"
    /\ \E k \in DOMAIN tokens : tokens[k].line = 2 /\ tokens[k].start_column = 1


\* parse has returned its program
ParserReturned == pc = "validate"

\* the index in the token list of the token that stands at (line, column)
TokenIndex(toks, line, column) ==
    CHOOSE k \in DOMAIN toks : toks[k].line = line /\ toks[k].start_column = column

\* the number of tokens that follow the k-th token and share its line
SameLineRun(toks, k) ==
    Max({ n \in 0..(Len(toks) - k) :
            \A i \in 1..n : toks[k + i].line = toks[k].line })

\* statement j begins with the k-th token
BeginsWith(prog, j, toks, k) ==
    /\ j \in DOMAIN prog
    /\ prog[j].line = toks[k].line
    /\ prog[j].column = toks[k].start_column

\* the Instruction statement j, whose MNEMONIC is the k-th token, has as its
\* operands the n tokens after it, and the token after those begins the next
\* statement; there is no next statement when no token is left
OperandsAre(prog, j, toks, k, n) ==
    /\ toks[k].type = "MNEMONIC"
    /\ prog[j].arguments = SubSeq(toks, k + 1, k + n)
    /\ IF k + n < Len(toks)
       THEN BeginsWith(prog, j + 1, toks, k + n + 1)
       ELSE j = Len(prog)

\* C26: the operands of an Instruction statement are exactly the maximal run of
\* tokens that follow its MNEMONIC token and share its line; the first token
\* of another line is not consumed and begins the next statement, and the end
\* of the tokens ends the statement without an error.
C26_OperandsOfTheLine ==
    ParserReturned =>
        \A j \in DOMAIN program :
            IsInstruction(program[j]) =>
                OperandsAre(program, j, tokens,
                            TokenIndex(tokens, program[j].line, program[j].column),
                            SameLineRun(tokens,
                                        TokenIndex(tokens, program[j].line,
                                                   program[j].column)))

\* an Instruction with two operands is followed by a statement on the next
\* line, and the last statement of the program is an Instruction with an
\* operand that ends with the tokens
C26_Witness ==
    /\ ParserReturned
    /\ \E j \in DOMAIN program :
           /\ IsInstruction(program[j])
           /\ Len(program[j].arguments) = 2
           /\ j < Len(program)
           /\ program[j + 1].line = program[j].line + 1
    /\ IsInstruction(program[Len(program)])
    /\ Len(program[Len(program)].arguments) >= 1


\* generate_code has been called a second time
CalledAgain == call # NoCall

\* C27: a second call of generate_code on the same code generator returns the
\* list of words that the first call returned, for every program on which the
\* first call succeeded, Label statements or not: the second call raises
\* nothing.
C27_SecondCallSame ==
    CalledAgain =>
        /\ err = NoError
        /\ pc = "done" => result = call.first


\* C28: after a successful pass 1 every address of the symbol table lies in
\* 0..MAX_PROGRAM_SIZE - 1, the range of the numeric address operands, also the
\* address of a label that stands after the last instruction of a program of
\* MAX_PROGRAM_SIZE instructions.
C28_AddressesInRange ==
    PassOneReturned =>
        \A name \in DOMAIN symbol_table :
            symbol_table[name] \in 0..(MAX_PROGRAM_SIZE - 1)


\* the statements at which pass 1 has something to raise: a Label statement
\* whose name an earlier one has, an Instruction statement with MAX_PROGRAM_SIZE
\* Instruction statements before it
PassOneDefects(prog) ==
    RepeatedLabels(prog)
    \cup { i \in DOMAIN prog :
             IsInstruction(prog[i]) /\ InstructionsBefore(prog, i) >= MAX_PROGRAM_SIZE }

\* the Instruction statements with an IDENT operand that no Label statement of
\* the program defines
UndefinedReferences(prog) ==
    { i \in DOMAIN prog :
        /\ IsInstruction(prog[i])
        /\ \E k \in DOMAIN prog[i].arguments :
               /\ prog[i].arguments[k].type = "IDENT"
               /\ \A d \in LabelIndexes(prog) :
                      prog[d].label # prog[i].arguments[k].value }

\* the error of pass 1 at statement s
PassOneError(s) ==
    Error(IF IsLabel(s) THEN "DuplicateLabelError" ELSE "ProgramTooLongError",
          s.line, NoneLoc)

\* the addresses of the labels of a program
LabelAddresses(prog) ==
    [name \in { prog[i].label : i \in LabelIndexes(prog) } |->
        InstructionsBefore(prog,
                           CHOOSE i \in LabelIndexes(prog) : prog[i].label = name)]

\* C29: pass 1 runs over the whole program before an instruction is encoded: a
\* program with a duplicate label or more than MAX_PROGRAM_SIZE instructions,
\* and with a reference to an undefined label somewhere, ends with the error
\* of pass 1 that comes first in source order and with no word encoded;
\* UndefinedLabel is never raised for such a program, and pass 2 leaves the
\* symbol table as pass 1 made it.
C29_PassOneFirst ==
    /\ (PassOneEnded /\ PassOneDefects(program) # { }
        /\ UndefinedReferences(program) # { }) =>
           /\ pc = "resolve_labels"
           /\ err = PassOneError(program[Min(PassOneDefects(program))])
           /\ machine_code = << >>
    /\ err.kind = "UndefinedLabelError" => PassOneDefects(program) = { }
    /\ PassOneReturned => symbol_table = LabelAddresses(program)

\* DuplicateLabel is raised although an instruction before the second
\* definition of the label refers to a label that is defined nowhere
C29_Witness ==
    /\ pc = "resolve_labels"
    /\ err.kind = "DuplicateLabelError"
    /\ \E i \in UndefinedReferences(program) : i < Min(PassOneDefects(program))


\* the tokens a statement was made of: the LABEL token of a Label statement,
\* the MNEMONIC token of an Instruction statement and then its operands
StatementTokens(s) ==
    IF IsLabel(s)
    THEN << Token("LABEL", s.label \o << ":" >>, s.line, s.column) >>
    ELSE << Token("MNEMONIC", s.mnemonic, s.line, s.column) >> \o s.arguments

RECURSIVE ProgramTokens(_)
\* the tokens of the statements of a program, in statement order
ProgramTokens(prog) ==
    IF prog = << >> THEN << >>
    ELSE StatementTokens(Head(prog)) \o ProgramTokens(Tail(prog))

\* C30: when parse succeeds every token is in one statement, as its label, its
\* mnemonic or one of its operands: there are as many statements as LABEL and
\* MNEMONIC tokens, and the tokens of the statements, in statement order, are
\* the token list.
C30_EveryTokenOnce ==
    ParserReturned =>
        /\ Len(program)
             = Cardinality({ i \in DOMAIN tokens :
                               tokens[i].type \in { "LABEL", "MNEMONIC" } })
        /\ ProgramTokens(program) = tokens

\* a label, an instruction with two operands and a further statement are
\* parsed
C30_Witness ==
    /\ ParserReturned
    /\ Len(program) >= 3
    /\ \E i \in DOMAIN program : IsLabel(program[i])
    /\ \E i \in DOMAIN program :
           IsInstruction(program[i]) /\ Len(program[i].arguments) = 2

====
